---- MODULE Spec2Model ----
(***************************************************************************)
(* Model of voxnotes.py (speaker notes export / import for VoxPrep).        *)
(*                                                                         *)
(* Text is a sequence of code points (Python str).  A NotesRecord is a     *)
(* record [slide_number, slide_title, notes]; a snapshot is a sequence of  *)
(* NotesRecords.  Seven specifications share the variables:                *)
(*   SpecCmp    compare_notes applied to bounded snapshots                 *)
(*   SpecApply  apply_notes, one action per collaborator call              *)
(*   SpecRT     export_to_{txt,md,docx} followed by parse_notes_file       *)
(*   SpecParse  parse_notes_file applied to a hand-edited file             *)
(*   SpecSan    sanitize_text applied to a text and to its own result      *)
(*   SpecAttach voxattach.py: run mode and session of attach_or_skip       *)
(*   SpecCli    the command line: export, import and preview               *)
(***************************************************************************)
EXTENDS Integers, Sequences, FiniteSets, TLC

VARIABLES
    pc,               \* position of the running call
    original,         \* compare_notes: snapshot from extract_notes
    edited,           \* compare_notes: snapshot from parse_notes_file
    changes,          \* compare_notes: returned change list
    changes_in,       \* apply_notes: the changes argument
    slides_to_apply,  \* apply_notes: [given, slides], given = FALSE for None
    todo,             \* apply_notes: changes after the filter
    idx,              \* apply_notes: position of the loop in todo
    result,           \* apply_notes: {"applied", "skipped", "errors"}
    app,              \* apply_notes: the PowerPoint application object
    pres,             \* apply_notes: the presentation object
    attempt,          \* open_presentation_with_retry: attempts made
    calls,            \* collaborator calls made so far, in order
    pending,          \* apply_notes: what the try block ended with
    exc,              \* apply_notes: the call whose exception line 942 caught
    outcome,          \* apply_notes: "running", "returned" or "raised"
    pres_notes,       \* notes text of the open presentation, per slide
    disk_notes,       \* notes text of the saved document, per slide
    fmt,              \* round trip: "txt", "md" or "docx"
    records,          \* round trip: the snapshot given to the serializer
    file,             \* round trip: the written file
    parsed,           \* round trip: the snapshot parsed from the file
    units,            \* parser: the lines (paragraphs) the edited file is made of
    san_in,           \* sanitize_text: the argument
    san_out,          \* sanitize_text: the value returned
    san_again,        \* sanitize_text: the value returned for san_out
    win32,            \* voxattach: the win32com module, "None" if the import failed
    run_mode,         \* voxattach: _RUN_MODE
    session,          \* voxattach: _SESSION
    open_decks,       \* voxattach: the decks open in PowerPoint
    events,           \* voxattach: the calls and user actions so far, in order
    command,          \* command line: sys.argv[1], "None" if absent
    argc,             \* command line: len(sys.argv)
    exit_code,        \* command line: the exit status, -1 while running
    stdout,           \* command line: what was printed to sys.stdout
    stderr,           \* command line: what was printed to sys.stderr
    read_failed       \* extract_notes: slides whose notes could not be read

vars ==
    <<pc, original, edited, changes, changes_in, exc, slides_to_apply, todo, idx,
      result, app, pres, attempt, calls, pending, outcome, pres_notes,
      disk_notes, fmt, records, file, parsed, units, san_in, san_out,
      san_again, win32, run_mode, session, open_decks, events, command, argc,
      exit_code, stdout, stderr, read_failed>>

cmpVars ==
    <<original, edited, changes>>

applyVars ==
    <<changes_in, exc, slides_to_apply, todo, idx, result, app, pres, attempt,
      calls, pending, outcome, pres_notes, disk_notes>>

rtVars ==
    <<fmt, records, file, parsed, units, san_in, san_out, san_again>>

attachVars ==
    <<win32, run_mode, session, open_decks, events>>

cliVars ==
    <<command, argc, exit_code, stdout, stderr, read_failed>>

(***************************************************************************)
(* Text primitives (Python str methods used by the code).                  *)
(***************************************************************************)

\* '\n', the line separator of split('\n') and '\n'.join
LF ==
    10

\* ' '
SP ==
    32

Min(S) ==
    CHOOSE x \in S : \A y \in S : x <= y

Max(S) ==
    CHOOSE x \in S : \A y \in S : x >= y

SeqsUpTo(S, n) ==
    UNION {[1..k -> S] : k \in 0..n}

\* str.isspace() on the ASCII range: the characters str.strip() removes
IsSpace(c) ==
    c \in {9, 10, 11, 12, 13, 28, 29, 30, 31, 32}

\* the text is compared as read, without trimming
Strip_none(s) ==
    s

\* str.strip()
Strip(s) ==
    LET keep == {i \in 1..Len(s) : ~IsSpace(s[i])}
    IN  IF keep = {} THEN <<>> ELSE SubSeq(s, Min(keep), Max(keep))

\* str.rstrip()
RStrip(s) ==
    LET keep == {i \in 1..Len(s) : ~IsSpace(s[i])}
    IN  IF keep = {} THEN <<>> ELSE SubSeq(s, 1, Max(keep))

(***************************************************************************)
(* compare_notes                                                           *)
(***************************************************************************)

\* the keys of {n["slide_number"]: n for n in recs}, in dict (first
\* insertion) order
DictKeys(recs) ==
    LET first == {i \in 1..Len(recs) :
                     \A j \in 1..(i - 1) :
                         recs[j].slide_number # recs[i].slide_number}
        F[k \in 0..Len(recs)] ==
            IF k = 0 THEN <<>>
            ELSE IF k \in first THEN Append(F[k - 1], recs[k].slide_number)
                 ELSE F[k - 1]
    IN  F[Len(recs)]

HasKey(recs, n) ==
    \E i \in 1..Len(recs) : recs[i].slide_number = n

\* the first record with the key is kept, later ones are ignored
DictGet_first(recs, n) ==
    recs[Min({i \in 1..Len(recs) : recs[i].slide_number = n})]

\* the value of {n["slide_number"]: n for n in recs}[n]: a later record
\* with the same key overwrites the earlier one
DictGet(recs, n) ==
    recs[Max({i \in 1..Len(recs) : recs[i].slide_number = n})]

\* lines 837-842 with the operands swapped in the first two tests
change_type_swapped(orig_text, edit_text) ==
    IF orig_text # <<>> /\ edit_text = <<>> THEN "added"
    ELSE IF orig_text = <<>> /\ edit_text # <<>> THEN "removed"
    ELSE "modified"

change_type_of(orig_text, edit_text) ==
    IF orig_text = <<>> /\ edit_text # <<>> THEN "added"
    ELSE IF orig_text # <<>> /\ edit_text = <<>> THEN "removed"
    ELSE "modified"

\* the body of the loop with the original text left untrimmed
ChangesForSlide_rawOriginal(orig, edit, slide_num) ==
    LET edited_note == DictGet(edit, slide_num)
    IN  IF ~HasKey(orig, slide_num)
        THEN IF edited_note.notes # <<>>
             THEN << [slide_number   |-> slide_num,
                      slide_title    |-> edited_note.slide_title,
                      original_notes |-> <<>>,
                      edited_notes   |-> edited_note.notes,
                      change_type    |-> "added"] >>
             ELSE <<>>
        ELSE LET original_note == DictGet(orig, slide_num)
                 orig_text == original_note.notes
                 edit_text == Strip(edited_note.notes)
             IN  IF orig_text # edit_text
                 THEN << [slide_number   |-> slide_num,
                          slide_title    |-> original_note.slide_title,
                          original_notes |-> orig_text,
                          edited_notes   |-> edit_text,
                          change_type    |-> change_type_of(orig_text, edit_text)] >>
                 ELSE <<>>

\* the body of the loop over edited_by_slide.items(): the changes appended
\* for one slide number (none or one)
ChangesForSlide(orig, edit, slide_num) ==
    LET edited_note == DictGet(edit, slide_num)
    IN  IF ~HasKey(orig, slide_num)
        THEN IF edited_note.notes # <<>>
             THEN << [slide_number   |-> slide_num,
                      slide_title    |-> edited_note.slide_title,
                      original_notes |-> <<>>,
                      edited_notes   |-> edited_note.notes,
                      change_type    |-> "added"] >>
             ELSE <<>>
        ELSE LET original_note == DictGet(orig, slide_num)
                 orig_text == Strip(original_note.notes)
                 edit_text == Strip(edited_note.notes)
             IN  IF orig_text # edit_text
                 THEN << [slide_number   |-> slide_num,
                          slide_title    |-> original_note.slide_title,
                          original_notes |-> orig_text,
                          edited_notes   |-> edit_text,
                          change_type    |-> change_type_of(orig_text, edit_text)] >>
                 ELSE <<>>

\* compare_notes that also walks the slides of original missing from edited
\* and reports them as removed
compare_notes_symmetric(orig, edit) ==
    LET keys == DictKeys(edit)
        F[k \in 0..Len(keys)] ==
            IF k = 0 THEN <<>>
            ELSE F[k - 1] \o ChangesForSlide(orig, edit, keys[k])
        okeys == DictKeys(orig)
        G[k \in 0..Len(okeys)] ==
            IF k = 0 THEN F[Len(keys)]
            ELSE IF HasKey(edit, okeys[k]) \/ Strip(DictGet(orig, okeys[k]).notes) = <<>>
                 THEN G[k - 1]
                 ELSE Append(G[k - 1],
                             [slide_number   |-> okeys[k],
                              slide_title    |-> DictGet(orig, okeys[k]).slide_title,
                              original_notes |-> Strip(DictGet(orig, okeys[k]).notes),
                              edited_notes   |-> <<>>,
                              change_type    |-> "removed"])
    IN  G[Len(okeys)]

compare_notes(orig, edit) ==
    LET keys == DictKeys(edit)
        F[k \in 0..Len(keys)] ==
            IF k = 0 THEN <<>>
            ELSE F[k - 1] \o ChangesForSlide(orig, edit, keys[k])
    IN  F[Len(keys)]

(***************************************************************************)
(* Bounded inputs of compare_notes.                                        *)
(***************************************************************************)

\* longest snapshot given to compare_notes
MaxRecs ==
    2

SlideNumbers ==
    {1, 2}

\* "", "a", "  ", " b"
CmpNotes ==
    {<<>>, <<97>>, <<SP, SP>>, <<SP, 98>>}

\* "T"
CmpTitles ==
    {<<84>>}

CmpRecords ==
    [slide_number : SlideNumbers, slide_title : CmpTitles, notes : CmpNotes]

CmpSnapshots ==
    SeqsUpTo(CmpRecords, MaxRecs)

\* slides_to_apply = None
NoSlideFilter ==
    [given |-> FALSE, slides |-> {}]

NoResult ==
    [applied |-> <<>>, skipped |-> <<>>, errors |-> <<>>]

ApplyIdle ==
    /\ changes_in = <<>>
    /\ slides_to_apply = NoSlideFilter
    /\ todo = <<>>
    /\ idx = 0
    /\ result = NoResult
    /\ app = "None"
    /\ pres = "None"
    /\ attempt = 0
    /\ calls = <<>>
    /\ pending = "none"
    /\ exc = "None"
    /\ outcome = "running"
    /\ pres_notes = <<>>
    /\ disk_notes = <<>>

RTIdle ==
    /\ fmt = "txt"
    /\ records = <<>>
    /\ file = <<>>
    /\ parsed = <<>>
    /\ units = <<>>
    /\ san_in = <<>>
    /\ san_out = <<>>
    /\ san_again = <<>>

\* _RUN_MODE after module load or reset_for_new_run
NoRunMode ==
    [mode |-> "None", path |-> "None"]

\* _SESSION after module load
NoSession ==
    [app |-> "None", pres |-> "None", path |-> "None", opened_by_us |-> FALSE]

AttachIdle ==
    /\ win32 = "None"
    /\ run_mode = NoRunMode
    /\ session = NoSession
    /\ open_decks = {}
    /\ events = <<>>

\* no command line is running
CliIdle ==
    /\ command = "None"
    /\ argc = 0
    /\ exit_code = -1
    /\ stdout = <<>>
    /\ stderr = <<>>
    /\ read_failed = {}

CmpIdle ==
    /\ original = <<>>
    /\ edited = <<>>
    /\ changes = <<>>

InitCmp ==
    /\ pc = "compare"
    /\ original \in CmpSnapshots
    /\ edited \in CmpSnapshots
    /\ changes = <<>>
    /\ ApplyIdle
    /\ AttachIdle
    /\ CliIdle
    /\ RTIdle

Compare ==
    /\ pc = "compare"
    /\ changes' = compare_notes(original, edited)
    /\ pc' = "compared"
    /\ UNCHANGED <<original, edited>>
    /\ UNCHANGED applyVars
    /\ UNCHANGED rtVars
    /\ UNCHANGED attachVars
    /\ UNCHANGED cliVars

NextCmp ==
    Compare

SpecCmp ==
    InitCmp /\ [][NextCmp]_vars

(***************************************************************************)
(* Properties of compare_notes, checked under SpecCmp.                     *)
(***************************************************************************)

ChangesOf(s) ==
    {i \in 1..Len(changes) : changes[i].slide_number = s}

\* C2: for a slide number with a record in both snapshots, a ChangeRecord is
\* emitted iff the trimmed notes differ, and its change_type is "added" iff
\* the trimmed original is empty and the trimmed edited is not, "removed"
\* iff the trimmed original is non-empty and the trimmed edited is empty,
\* "modified" otherwise.
C2_ChangeIffDifferent ==
    pc = "compared" =>
        \A s \in SlideNumbers :
            (HasKey(original, s) /\ HasKey(edited, s)) =>
                LET o == Strip(DictGet(original, s).notes)
                    e == Strip(DictGet(edited, s).notes)
                IN  /\ (ChangesOf(s) # {}) <=> (o # e)
                    /\ \A i \in ChangesOf(s) :
                        /\ changes[i].change_type \in {"added", "removed", "modified"}
                        /\ (changes[i].change_type = "added")
                               <=> (o = <<>> /\ e # <<>>)
                        /\ (changes[i].change_type = "removed")
                               <=> (o # <<>> /\ e = <<>>)

\* C2 witness: one slide reported as modified, another present in both
\* snapshots with different raw text, equal after trimming, and unreported.
C2_Witness ==
    /\ pc = "compared"
    /\ \E i \in 1..Len(changes) :
        /\ changes[i].change_type = "modified"
        /\ HasKey(original, changes[i].slide_number)
    /\ \E s \in SlideNumbers :
        /\ HasKey(original, s) /\ HasKey(edited, s)
        /\ DictGet(original, s).notes # DictGet(edited, s).notes
        /\ ChangesOf(s) = {}

\* C3: the change list is in ascending slide_number order, whatever the
\* order of the records in the edited snapshot.
C3_ChangesAscending ==
    pc = "compared" =>
        \A i, j \in 1..Len(changes) :
            i < j => changes[i].slide_number < changes[j].slide_number

\* C4: no ChangeRecord for a slide number that original has and edited has
\* not; every ChangeRecord's slide_number is that of some edited record.
C4_AbsenceAsymmetry ==
    pc = "compared" =>
        /\ \A i \in 1..Len(changes) : HasKey(edited, changes[i].slide_number)
        /\ \A s \in SlideNumbers :
               (HasKey(original, s) /\ ~HasKey(edited, s)) => ChangesOf(s) = {}

\* C4 witness: original has a slide with notes that edited does not mention,
\* and compare reported another slide.
C4_Witness ==
    /\ pc = "compared"
    /\ changes # <<>>
    /\ \E s \in SlideNumbers :
        /\ HasKey(original, s)
        /\ ~HasKey(edited, s)
        /\ Strip(DictGet(original, s).notes) # <<>>

\* C5: compare(S, S) is the empty change list.
C5_DiffSymmetry ==
    (pc = "compared" /\ original = edited) => changes = <<>>

\* C5 witness: a two-record snapshot holding untrimmed notes compared with
\* itself.
C5_Witness ==
    /\ pc = "compared"
    /\ original = edited
    /\ Len(edited) = 2
    /\ \E i \in 1..Len(edited) :
        /\ edited[i].notes # Strip(edited[i].notes)
        /\ Strip(edited[i].notes) # <<>>

\* C6: an edited record with no original counterpart is reported (as added)
\* only if its notes are non-empty after trimming.
C6_AddedOnlyIfNonEmptyTrimmed ==
    pc = "compared" =>
        \A s \in SlideNumbers :
            (HasKey(edited, s) /\ ~HasKey(original, s) /\ ChangesOf(s) # {}) =>
                /\ Strip(DictGet(edited, s).notes) # <<>>
                /\ \A i \in ChangesOf(s) : changes[i].change_type = "added"

\* C7: original_notes and edited_notes of every ChangeRecord are trimmed.
C7_ChangeNotesTrimmed ==
    pc = "compared" =>
        \A i \in 1..Len(changes) :
            /\ changes[i].original_notes = Strip(changes[i].original_notes)
            /\ changes[i].edited_notes = Strip(changes[i].edited_notes)

\* the position of the last record of recs with slide number s
LastIndex(recs, s) ==
    CHOOSE i \in 1..Len(recs) :
        /\ recs[i].slide_number = s
        /\ \A j \in (i + 1)..Len(recs) : recs[j].slide_number # s

\* C22: the change list holds at most one ChangeRecord per slide number, and
\* for a slide number with several edited records the last one decides:
\* a change is reported iff the last record differs from the original (or,
\* with no original record, has notes), and its edited_notes are the notes
\* of the last record.
C22_LastParsedWins ==
    pc = "compared" =>
        \A s \in SlideNumbers :
            /\ Cardinality(ChangesOf(s)) <= 1
            /\ HasKey(edited, s) =>
                   LET last == edited[LastIndex(edited, s)]
                   IN  /\ \A i \in ChangesOf(s) :
                              Strip(changes[i].edited_notes) = Strip(last.notes)
                       /\ (ChangesOf(s) # {}) <=>
                              IF HasKey(original, s)
                              THEN Strip(original[LastIndex(original, s)].notes)
                                       # Strip(last.notes)
                              ELSE last.notes # <<>>

\* C22 witness: the edited snapshot holds two records of one slide; the
\* first has the original's notes, the second does not, and the one change
\* reported for the slide carries the notes of the second.
C22_Witness ==
    /\ pc = "compared"
    /\ Len(original) = 1
    /\ Len(edited) = 2
    /\ edited[1].slide_number = original[1].slide_number
    /\ edited[2].slide_number = original[1].slide_number
    /\ Strip(edited[1].notes) = Strip(original[1].notes)
    /\ Strip(edited[2].notes) # Strip(original[1].notes)
    /\ Len(changes) = 1
    /\ changes[1].edited_notes = Strip(edited[2].notes)

(***************************************************************************)
(* apply_notes.  The collaborator (PowerPoint over COM) is the environment: *)
(* each of its calls either succeeds or raises, chosen nondeterministically.*)
(* calls records the collaborator calls in the order they are made:         *)
(* "SetNotes" is one pass of the per-slide try block (lines 915-933),       *)
(* "AssignText" the assignment to TextRange.Text inside it (line 924).      *)
(***************************************************************************)

\* COM_RETRY_ATTEMPTS
COM_RETRY_ATTEMPTS ==
    3

\* longest change list given to apply_notes
MaxChanges ==
    3

ApplySlides ==
    {1, 2, 3}

\* the ChangeRecord of slide n; the text to write names the slide
ApplyChange(n) ==
    [slide_number   |-> n,
     slide_title    |-> <<84>>,
     original_notes |-> <<111>>,
     edited_notes   |-> <<96 + n>>,
     change_type    |-> "modified"]

ApplyChangeLists ==
    {[k \in 1..Len(q) |-> ApplyChange(q[k])] : q \in SeqsUpTo(ApplySlides, MaxChanges)}

\* the notes of the saved deck before the call: "o" on every slide
DiskInit ==
    [n \in ApplySlides |-> <<111>>]

Call(op, n) ==
    <<op, n>>

CallsOf(op) ==
    SelectSeq(calls, LAMBDA c : c[1] = op)

SlidesOf(q) ==
    [k \in 1..Len(q) |-> q[k].slide_number]

\* the filter left out: every change is kept
filter_changes_keep_all(chs, sel) ==
    chs

\* lines 889-890
filter_changes(chs, sel) ==
    IF ~sel.given THEN chs
    ELSE SelectSeq(chs, LAMBDA c : c.slide_number \in sel.slides)

InitApply ==
    /\ pc = "apply_start"
    /\ changes_in \in ApplyChangeLists
    /\ slides_to_apply \in
           {NoSlideFilter} \cup [given : {TRUE}, slides : SUBSET ApplySlides]
    /\ todo = <<>>
    /\ idx = 0
    /\ result = NoResult
    /\ app = "None"
    /\ pres = "None"
    /\ attempt = 0
    /\ calls = <<>>
    /\ pending = "none"
    /\ exc = "None"
    /\ outcome = "running"
    /\ pres_notes = <<>>
    /\ disk_notes = DiskInit
    /\ CmpIdle
    /\ RTIdle
    /\ AttachIdle
    /\ CliIdle

\* lines 883-884: pywin32 is not installed
ApplyNoCom ==
    /\ pc = "apply_start"
    /\ pc' = "done"
    /\ outcome' = "raised"
    /\ UNCHANGED <<changes_in, exc, slides_to_apply, todo, idx, result, app, pres,
                   attempt, calls, pending, pres_notes, disk_notes>>
    /\ UNCHANGED cmpVars
    /\ UNCHANGED rtVars
    /\ UNCHANGED attachVars
    /\ UNCHANGED cliVars

\* lines 888-901: filter, early return on an empty list, fresh result
ApplyFilter ==
    /\ pc = "apply_start"
    /\ todo' = filter_changes(changes_in, slides_to_apply)
    /\ result' = NoResult
    /\ IF todo' = <<>>
       THEN pc' = "done" /\ outcome' = "returned"
       ELSE pc' = "dispatch" /\ outcome' = "running"
    /\ UNCHANGED <<changes_in, exc, slides_to_apply, idx, app, pres, attempt,
                   calls, pending, pres_notes, disk_notes>>
    /\ UNCHANGED cmpVars
    /\ UNCHANGED rtVars
    /\ UNCHANGED attachVars
    /\ UNCHANGED cliVars

\* lines 904-905: EnsureDispatch or Dispatch raises, app stays None
DispatchRaises ==
    /\ pc = "dispatch"
    /\ calls' = Append(calls, Call("Dispatch", 0))
    /\ pending' = "raised"
    /\ exc' = "Dispatch"
    /\ pc' = "close"
    /\ UNCHANGED <<changes_in, slides_to_apply, todo, idx, result, app, pres,
                   attempt, outcome, pres_notes, disk_notes>>
    /\ UNCHANGED cmpVars
    /\ UNCHANGED rtVars
    /\ UNCHANGED attachVars
    /\ UNCHANGED cliVars

\* lines 904-906: the application object is created and made visible
DispatchOk ==
    /\ pc = "dispatch"
    /\ calls' = Append(calls, Call("Dispatch", 0))
    /\ app' = "app"
    /\ pc' = "open"
    /\ UNCHANGED <<changes_in, exc, slides_to_apply, todo, idx, result, pres,
                   attempt, pending, outcome, pres_notes, disk_notes>>
    /\ UNCHANGED cmpVars
    /\ UNCHANGED rtVars
    /\ UNCHANGED attachVars
    /\ UNCHANGED cliVars

\* line 906: the application object exists, app.Visible = True raises
VisibleRaises ==
    /\ pc = "dispatch"
    /\ calls' = Append(calls, Call("Dispatch", 0))
    /\ app' = "app"
    /\ pending' = "raised"
    /\ exc' = "Visible"
    /\ pc' = "close"
    /\ UNCHANGED <<changes_in, slides_to_apply, todo, idx, result, pres,
                   attempt, outcome, pres_notes, disk_notes>>
    /\ UNCHANGED cmpVars
    /\ UNCHANGED rtVars
    /\ UNCHANGED attachVars
    /\ UNCHANGED cliVars

\* lines 70-73: Open succeeds, the presentation is returned at once
OpenOk ==
    /\ pc = "open"
    /\ attempt' = attempt + 1
    /\ calls' = Append(calls, Call("Open", attempt + 1))
    /\ pres' = "open"
    /\ pres_notes' = disk_notes
    /\ idx' = 1
    /\ pc' = "loop"
    /\ UNCHANGED <<changes_in, exc, slides_to_apply, todo, result, app, pending,
                   outcome, disk_notes>>
    /\ UNCHANGED cmpVars
    /\ UNCHANGED rtVars
    /\ UNCHANGED attachVars
    /\ UNCHANGED cliVars

\* lines 74-78: Open raises before the last attempt, sleep and try again
OpenRaisesRetry ==
    /\ pc = "open"
    /\ attempt + 1 < COM_RETRY_ATTEMPTS
    /\ attempt' = attempt + 1
    /\ calls' = calls \o <<Call("Open", attempt + 1), Call("Sleep", attempt + 1)>>
    /\ UNCHANGED <<pc, changes_in, exc, slides_to_apply, todo, idx, result, app,
                   pres, pending, outcome, pres_notes, disk_notes>>
    /\ UNCHANGED cmpVars
    /\ UNCHANGED rtVars
    /\ UNCHANGED attachVars
    /\ UNCHANGED cliVars

\* the delay is slept after every failed attempt, the last one included
OpenRaisesLast_sleeps ==
    /\ pc = "open"
    /\ attempt + 1 >= COM_RETRY_ATTEMPTS
    /\ attempt' = attempt + 1
    /\ calls' = calls \o <<Call("Open", attempt + 1), Call("Sleep", attempt + 1)>>
    /\ pending' = "raised"
    /\ exc' = "Open"
    /\ pc' = "close"
    /\ UNCHANGED <<changes_in, slides_to_apply, todo, idx, result, app, pres,
                   outcome, pres_notes, disk_notes>>
    /\ UNCHANGED cmpVars
    /\ UNCHANGED rtVars
    /\ UNCHANGED attachVars
    /\ UNCHANGED cliVars

\* lines 74-82 and 942-943: Open raises on the last attempt, RuntimeError
OpenRaisesLast ==
    /\ pc = "open"
    /\ attempt + 1 >= COM_RETRY_ATTEMPTS
    /\ attempt' = attempt + 1
    /\ calls' = Append(calls, Call("Open", attempt + 1))
    /\ pending' = "raised"
    /\ exc' = "Open"
    /\ pc' = "close"
    /\ UNCHANGED <<changes_in, slides_to_apply, todo, idx, result, app, pres,
                   outcome, pres_notes, disk_notes>>
    /\ UNCHANGED cmpVars
    /\ UNCHANGED rtVars
    /\ UNCHANGED attachVars
    /\ UNCHANGED cliVars

InLoop ==
    pc = "loop" /\ idx <= Len(todo)

LoopFrame ==
    /\ UNCHANGED <<pc, changes_in, exc, slides_to_apply, todo, app, pres, attempt,
                   pending, outcome, disk_notes>>
    /\ UNCHANGED cmpVars
    /\ UNCHANGED rtVars
    /\ UNCHANGED attachVars
    /\ UNCHANGED cliVars

\* line 916: pres.Slides.Item(n) returns a slide only for a slide of the deck
SlideExists(n) ==
    n \in DOMAIN pres_notes

\* every write is saved at once: the text reaches the saved document too
SetNotesOk_write_through ==
    /\ InLoop
    /\ SlideExists(todo[idx].slide_number)
    /\ calls' = calls \o <<Call("SetNotes", todo[idx].slide_number),
                           Call("AssignText", todo[idx].slide_number)>>
    /\ pres_notes' =
           [pres_notes EXCEPT ![todo[idx].slide_number] = todo[idx].edited_notes]
    /\ disk_notes' = pres_notes'
    /\ result' = [result EXCEPT !.applied = Append(@, todo[idx].slide_number)]
    /\ idx' = idx + 1
    /\ UNCHANGED <<pc, changes_in, exc, slides_to_apply, todo, app, pres,
                   attempt, pending, outcome>>
    /\ UNCHANGED cmpVars
    /\ UNCHANGED rtVars
    /\ UNCHANGED attachVars
    /\ UNCHANGED cliVars

\* the save moved into the loop: the document is saved after every write
SetNotesOk_save_each ==
    /\ InLoop
    /\ SlideExists(todo[idx].slide_number)
    /\ calls' = calls \o <<Call("SetNotes", todo[idx].slide_number),
                           Call("AssignText", todo[idx].slide_number),
                           Call("Save", 0)>>
    /\ pres_notes' =
           [pres_notes EXCEPT ![todo[idx].slide_number] = todo[idx].edited_notes]
    /\ result' = [result EXCEPT !.applied = Append(@, todo[idx].slide_number)]
    /\ idx' = idx + 1
    /\ LoopFrame

\* lines 916-927: the body placeholder is found and its text assigned
SetNotesOk ==
    /\ InLoop
    /\ SlideExists(todo[idx].slide_number)
    /\ calls' = calls \o <<Call("SetNotes", todo[idx].slide_number),
                           Call("AssignText", todo[idx].slide_number)>>
    /\ pres_notes' =
           [pres_notes EXCEPT ![todo[idx].slide_number] = todo[idx].edited_notes]
    /\ result' = [result EXCEPT !.applied = Append(@, todo[idx].slide_number)]
    /\ idx' = idx + 1
    /\ LoopFrame

\* the failure leaves the loop: the error is recorded and the call raises
SetNotesSlideRaises_abort ==
    /\ InLoop
    /\ calls' = Append(calls, Call("SetNotes", todo[idx].slide_number))
    /\ result' = [result EXCEPT !.errors =
                      Append(@, [slide_number |-> todo[idx].slide_number,
                                 message      |-> "exception"])]
    /\ pending' = "raised"
    /\ exc' = "SetNotes"
    /\ pc' = "close"
    /\ UNCHANGED <<changes_in, slides_to_apply, todo, idx, app, pres, attempt,
                   outcome, pres_notes, disk_notes>>
    /\ UNCHANGED cmpVars
    /\ UNCHANGED rtVars
    /\ UNCHANGED attachVars
    /\ UNCHANGED cliVars

\* lines 916-920 and 931-933: Slides.Item, NotesPage or Shapes raises
SetNotesSlideRaises ==
    /\ InLoop
    /\ calls' = Append(calls, Call("SetNotes", todo[idx].slide_number))
    /\ result' = [result EXCEPT !.errors =
                      Append(@, [slide_number |-> todo[idx].slide_number,
                                 message      |-> "exception"])]
    /\ idx' = idx + 1
    /\ UNCHANGED pres_notes
    /\ LoopFrame

\* lines 920-923: no shape of the notes page is a body placeholder with a
\* text frame; the for loop ends without a write and without an error
SetNotesNoBody ==
    /\ InLoop
    /\ SlideExists(todo[idx].slide_number)
    /\ calls' = Append(calls, Call("SetNotes", todo[idx].slide_number))
    /\ idx' = idx + 1
    /\ UNCHANGED <<result, pres_notes>>
    /\ LoopFrame

\* lines 924 and 928-929: the text assignment raises; the inner bare
\* except swallows it and no other shape takes the text
SetNotesAssignRaises ==
    /\ InLoop
    /\ SlideExists(todo[idx].slide_number)
    /\ calls' = calls \o <<Call("SetNotes", todo[idx].slide_number),
                           Call("AssignText", todo[idx].slide_number)>>
    /\ idx' = idx + 1
    /\ UNCHANGED <<result, pres_notes>>
    /\ LoopFrame

AfterLoop ==
    pc = "loop" /\ idx > Len(todo)

\* lines 936-940: Save succeeds, result is returned
SaveOk ==
    /\ AfterLoop
    /\ calls' = Append(calls, Call("Save", 0))
    /\ disk_notes' = pres_notes
    /\ pending' = "returned"
    /\ pc' = "close"
    /\ UNCHANGED <<changes_in, exc, slides_to_apply, todo, idx, result, app, pres,
                   attempt, outcome, pres_notes>>
    /\ UNCHANGED cmpVars
    /\ UNCHANGED rtVars
    /\ UNCHANGED attachVars
    /\ UNCHANGED cliVars

\* the failure of Save handled like a slide error: recorded, then returned
SaveRaises_recorded ==
    /\ AfterLoop
    /\ calls' = Append(calls, Call("Save", 0))
    /\ result' = [result EXCEPT !.errors =
                      Append(@, [slide_number |-> 0, message |-> "exception"])]
    /\ pending' = "returned"
    /\ exc' = "Save"
    /\ pc' = "close"
    /\ UNCHANGED <<changes_in, slides_to_apply, todo, idx, app, pres, attempt,
                   outcome, pres_notes, disk_notes>>
    /\ UNCHANGED cmpVars
    /\ UNCHANGED rtVars
    /\ UNCHANGED attachVars
    /\ UNCHANGED cliVars

\* lines 936 and 942-943: Save raises, RuntimeError
SaveRaises ==
    /\ AfterLoop
    /\ calls' = Append(calls, Call("Save", 0))
    /\ pending' = "raised"
    /\ exc' = "Save"
    /\ pc' = "close"
    /\ UNCHANGED <<changes_in, slides_to_apply, todo, idx, result, app, pres,
                   attempt, outcome, pres_notes, disk_notes>>
    /\ UNCHANGED cmpVars
    /\ UNCHANGED rtVars
    /\ UNCHANGED attachVars
    /\ UNCHANGED cliVars

CleanupFrame ==
    /\ UNCHANGED <<changes_in, exc, slides_to_apply, todo, idx, result, attempt,
                   pending, pres_notes, disk_notes>>
    /\ UNCHANGED cmpVars
    /\ UNCHANGED rtVars
    /\ UNCHANGED attachVars
    /\ UNCHANGED cliVars

\* lines 947-949: pres.Close() succeeds
ClosePresOk ==
    /\ pc = "close"
    /\ pres = "open"
    /\ calls' = Append(calls, Call("Close", 0))
    /\ pres' = "closed"
    /\ pc' = "quit"
    /\ UNCHANGED <<app, outcome>>
    /\ CleanupFrame

\* lines 947-951: pres.Close() raises, the bare except swallows it
ClosePresRaises ==
    /\ pc = "close"
    /\ pres = "open"
    /\ calls' = Append(calls, Call("Close", 0))
    /\ pc' = "quit"
    /\ UNCHANGED <<app, pres, outcome>>
    /\ CleanupFrame

\* line 947: no presentation was opened
ClosePresSkip ==
    /\ pc = "close"
    /\ pres = "None"
    /\ pc' = "quit"
    /\ UNCHANGED <<app, pres, calls, outcome>>
    /\ CleanupFrame

\* lines 952-954: app.Quit() succeeds, then the call returns or raises
QuitOk ==
    /\ pc = "quit"
    /\ app = "app"
    /\ calls' = Append(calls, Call("Quit", 0))
    /\ app' = "quit"
    /\ pc' = "done"
    /\ outcome' = pending
    /\ UNCHANGED pres
    /\ CleanupFrame

\* lines 952-956: app.Quit() raises, the bare except swallows it
QuitRaises ==
    /\ pc = "quit"
    /\ app = "app"
    /\ calls' = Append(calls, Call("Quit", 0))
    /\ pc' = "done"
    /\ outcome' = pending
    /\ UNCHANGED <<app, pres>>
    /\ CleanupFrame

\* line 952: no application object was created
QuitSkip ==
    /\ pc = "quit"
    /\ app = "None"
    /\ pc' = "done"
    /\ outcome' = pending
    /\ UNCHANGED <<app, pres, calls>>
    /\ CleanupFrame

NextApply ==
    \/ ApplyNoCom
    \/ ApplyFilter
    \/ DispatchRaises
    \/ DispatchOk
    \/ VisibleRaises
    \/ OpenOk
    \/ OpenRaisesRetry
    \/ OpenRaisesLast
    \/ SetNotesOk
    \/ SetNotesSlideRaises
    \/ SetNotesNoBody
    \/ SetNotesAssignRaises
    \/ SaveOk
    \/ SaveRaises
    \/ ClosePresOk
    \/ ClosePresRaises
    \/ ClosePresSkip
    \/ QuitOk
    \/ QuitRaises
    \/ QuitSkip

SpecApply ==
    InitApply /\ [][NextApply]_vars

(***************************************************************************)
(* Properties of apply_notes, checked under SpecApply.                     *)
(***************************************************************************)

InSeq(x, q) ==
    \E k \in 1..Len(q) : q[k] = x

ErrorSlides ==
    [k \in 1..Len(result.errors) |-> result.errors[k].slide_number]

SetNotesSlides ==
    [k \in 1..Len(CallsOf("SetNotes")) |-> CallsOf("SetNotes")[k][2]]

AssignTextSlides ==
    [k \in 1..Len(CallsOf("AssignText")) |-> CallsOf("AssignText")[k][2]]

C9_AppliedXorErrors ==
    outcome = "returned" =>
        \A k \in 1..Len(todo) :
            InSeq(todo[k].slide_number, result.applied)
                <=> ~InSeq(todo[k].slide_number, ErrorSlides)

\* C10: a failed write does not stop the loop: once the loop has been left,
\* every change of the filtered list has been attempted, in list order, and
\* the save was called after the last attempt; during the loop the attempts
\* made are those of the changes before the current one.
C10_NoAbortOnError ==
    /\ pc = "loop" => SetNotesSlides = SlidesOf(SubSeq(todo, 1, idx - 1))
    /\ (pres # "None" /\ pc \in {"close", "quit", "done"}) =>
           /\ SetNotesSlides = SlidesOf(todo)
           /\ \E k \in 1..Len(calls) :
                  /\ calls[k] = Call("Save", 0)
                  /\ \A j \in 1..Len(calls) :
                         calls[j][1] \in {"SetNotes", "AssignText"} => j < k

\* C10 witness: the write of the first change failed with an error, the
\* last change was written, and the call returned after the save.
C10_Witness ==
    /\ outcome = "returned"
    /\ Len(todo) >= 2
    /\ ErrorSlides = <<todo[1].slide_number>>
    /\ InSeq(todo[Len(todo)].slide_number, result.applied)
    /\ InSeq(Call("Save", 0), calls)

\* the positions of calls that hold a Save
SavePositions ==
    {k \in 1..Len(calls) : calls[k] = Call("Save", 0)}

\* C11 as stated: every apply call that returns has invoked the save exactly
\* once, after the last set-notes attempt and never between two attempts.
C11_SaveOnceEveryCall ==
    /\ Cardinality(SavePositions) <= 1
    /\ \A k \in SavePositions : \A j \in 1..Len(calls) :
           calls[j][1] \in {"SetNotes", "AssignText"} => j < k
    /\ outcome = "returned" => Cardinality(SavePositions) = 1

\* C11, amended: a call that opened the presentation invokes the save exactly
\* once, when every change of the filtered list has been attempted, after the
\* last attempt and never between two attempts; a call whose filtered list is
\* empty, or that failed before the presentation was open, never invokes it.
C11_SaveOnceAfterLoop ==
    /\ Cardinality(SavePositions) <= 1
    /\ \A k \in SavePositions :
           /\ SetNotesSlides = SlidesOf(todo)
           /\ \A j \in 1..Len(calls) :
                  calls[j][1] \in {"SetNotes", "AssignText"} => j < k
    /\ (pres # "None" /\ pc \in {"close", "quit", "done"}) =>
           Cardinality(SavePositions) = 1
    /\ (todo = <<>> \/ pres = "None") => SavePositions = {}

\* C11 witness: two changes were attempted and the call returned with one
\* save, the call that follows both attempts.
C11_Witness ==
    /\ outcome = "returned"
    /\ Len(SetNotesSlides) = 2
    /\ Cardinality(SavePositions) = 1
    /\ \E k \in SavePositions : \A j \in 1..Len(calls) :
           calls[j][1] = "SetNotes" => j < k

\* C12: when Save raises, errors is left as the loop made it, the try block
\* ends with the exception, and the call raises instead of returning.
C12_SaveFailureRaises ==
    [][exc' = "Save" =>
           /\ result' = result
           /\ pending' = "raised"
           /\ outcome' # "returned"
           /\ pc' = "done" => outcome' = "raised"]_vars

\* C12 witness: a change was written, Save raised, and the call has raised
\* with an empty errors list.
C12_Witness ==
    /\ pc = "done"
    /\ exc = "Save"
    /\ outcome = "raised"
    /\ result.applied # <<>>
    /\ result.errors = <<>>

\* C25: Open is called at most COM_RETRY_ATTEMPTS times, the attempts are
\* numbered 1, 2, ... and stop at the first success; the delay is slept
\* exactly between a failed attempt and the next one, never after the last;
\* the RuntimeError is raised exactly when all attempts have failed; the
\* attempts are bounded, so the loop ends.
C25_OpenWithRetry ==
    LET opens == CallsOf("Open")
    IN  /\ Len(opens) = attempt
        /\ attempt <= COM_RETRY_ATTEMPTS
        /\ pc = "open" => attempt < COM_RETRY_ATTEMPTS
        /\ \A k \in 1..Len(opens) : opens[k] = Call("Open", k)
        /\ \A k \in 1..Len(calls) :
               /\ calls[k][1] = "Sleep" =>
                      /\ k > 1 /\ calls[k - 1] = Call("Open", calls[k][2])
                      /\ calls[k][2] < COM_RETRY_ATTEMPTS
                      /\ IF k < Len(calls)
                         THEN calls[k + 1] = Call("Open", calls[k][2] + 1)
                         ELSE pc = "open"
               /\ (calls[k][1] = "Open" /\ calls[k][2] > 1) =>
                      calls[k - 1] = Call("Sleep", calls[k][2] - 1)
               /\ (calls[k][1] = "Open" /\ k < Len(calls)
                      /\ calls[k + 1][1] # "Sleep") => 
                      (pres # "None" \/ calls[k][2] = COM_RETRY_ATTEMPTS)
        /\ pres # "None" => exc # "Open"
        /\ exc = "Open" <=>
               (attempt = COM_RETRY_ATTEMPTS /\ pres = "None" /\ pc # "open")
        /\ (exc = "Open" /\ pc = "done") => outcome = "raised"

\* C25 witness: all attempts failed: three Open calls with a sleep after the
\* first and after the second only, and the call raised.
C25_Witness ==
    /\ pc = "done"
    /\ outcome = "raised"
    /\ exc = "Open"
    /\ Len(CallsOf("Open")) = COM_RETRY_ATTEMPTS
    /\ Len(CallsOf("Sleep")) = COM_RETRY_ATTEMPTS - 1

\* C29: when apply_notes raises, the notes of the saved document are those
\* of before the call, whatever was written to the open presentation.
C29_AllOrNothing ==
    (pending = "raised" \/ outcome = "raised") => disk_notes = DiskInit

\* C29 witness: a slide was written, Save raised, the presentation was
\* closed and the call raised; the saved document is as before the call.
C29_Witness ==
    /\ pc = "done"
    /\ outcome = "raised"
    /\ exc = "Save"
    /\ result.applied # <<>>
    /\ pres = "closed"
    /\ pres_notes # DiskInit
    /\ disk_notes = DiskInit

\* C13: when apply returns, skipped holds the slide number of every change
\* that allowed_slides filtered out.
C13_SkippedReported ==
    (outcome = "returned" /\ slides_to_apply.given) =>
        \A k \in 1..Len(changes_in) :
            changes_in[k].slide_number \notin slides_to_apply.slides =>
                InSeq(changes_in[k].slide_number, result.skipped)

(***************************************************************************)
(* Serializers and parsers.  A .txt or .md file is its text, a sequence of *)
(* code points; a .docx file is its sequence of paragraphs [text, bold,    *)
(* italic].  The inputs hold no carriage return, so the newline            *)
(* translation of text-mode open() leaves the text as written.             *)
(***************************************************************************)

\* only the C0 controls are deleted: DEL stays
sanitize_text_c0_only(text) ==
    SelectSeq(text, LAMBDA c : ~(c \in (0..31) \ {9, 10, 13}))

\* only the first character to delete is deleted
sanitize_text_first_only(text) ==
    LET bad == {k \in 1..Len(text) :
                   text[k] \in ((0..31) \ {9, 10, 13}) \cup {127}}
    IN  IF bad = {} THEN text
        ELSE SubSeq(text, 1, Min(bad) - 1) \o SubSeq(text, Min(bad) + 1, Len(text))

\* sanitize_text: drop 0x00-0x1F except tab, LF, CR, and drop DEL
sanitize_text(text) ==
    SelectSeq(text, LAMBDA c : ~(c \in ((0..31) \ {9, 10, 13}) \cup {127}))

\* "Slide "
SlideWord ==
    <<83, 108, 105, 100, 101>>

\* "[No notes]"
NoNotes ==
    <<91, 78, 111, 32, 110, 111, 116, 101, 115, 93>>

\* "*[No notes]*"
NoNotesMd ==
    <<42>> \o NoNotes \o <<42>>

\* "# Speaker Notes"
MdDocTitle ==
    <<35, SP, 83, 112, 101, 97, 107, 101, 114, SP, 78, 111, 116, 101, 115>>

\* "---"
MdRule ==
    <<45, 45, 45>>

\* the width of the separator lines: "─" * 50 and "═" * 50
SepWidth ==
    50

\* "─" * 50
ThinRule ==
    [i \in 1..SepWidth |-> 9472]

\* "═" * 50
ThickRule ==
    [i \in 1..SepWidth |-> 9552]

IsDigit(c) ==
    c \in 48..57

\* f"{n}" for an int n >= 0
RECURSIVE IntToStr(_)
IntToStr(n) ==
    IF n < 10 THEN <<48 + n>>
    ELSE Append(IntToStr(n \div 10), 48 + (n % 10))

\* int(s) for a string of ASCII digits
RECURSIVE StrToInt(_)
StrToInt(s) ==
    IF s = <<>> THEN 0
    ELSE 10 * StrToInt(SubSeq(s, 1, Len(s) - 1)) + (s[Len(s)] - 48)

\* str.split('\n'): the pieces between consecutive line feeds
Split(s) ==
    LET cuts == {0, Len(s) + 1} \cup {i \in 1..Len(s) : s[i] = LF}
        Cut(k) == CHOOSE c \in cuts : Cardinality({x \in cuts : x < c}) = k
    IN  [k \in 1..(Cardinality(cuts) - 1) |->
            SubSeq(s, Cut(k - 1) + 1, Cut(k) - 1)]

\* '\n'.join(lines)
Join(lines) ==
    LET F[k \in 0..Len(lines)] ==
            IF k = 0 THEN <<>>
            ELSE IF k = 1 THEN lines[1]
                 ELSE F[k - 1] \o <<LF>> \o lines[k]
    IN  F[Len(lines)]

\* str.lower() on the letters of "Slide"
Lower(c) ==
    IF c \in 65..90 THEN c + 32 ELSE c

StartsWith(s, prefix) ==
    /\ Len(s) >= Len(prefix)
    /\ SubSeq(s, 1, Len(prefix)) = prefix

\* re.compile(r'^Slide\s+(\d+)(?::\s*(.*))?$', re.IGNORECASE).match(text),
\* for a text without line feed: [ok, number, title]
MatchSlide(text) ==
    LET n == Len(text)
        wordOk == /\ n >= 5
                  /\ \A i \in 1..5 : Lower(text[i]) = Lower(SlideWord[i])
        \* first position after the run of \s+ that starts at 6
        d == IF \E i \in 6..n : ~IsSpace(text[i])
             THEN Min({i \in 6..n : ~IsSpace(text[i])}) ELSE n + 1
        \* first position after the run of \d+ that starts at d
        e == IF \E i \in d..n : ~IsDigit(text[i])
             THEN Min({i \in d..n : ~IsDigit(text[i])}) ELSE n + 1
        \* first position after ':' and the run of \s*
        t == IF \E i \in (e + 1)..n : ~IsSpace(text[i])
             THEN Min({i \in (e + 1)..n : ~IsSpace(text[i])}) ELSE n + 1
        ok == /\ wordOk
              /\ d > 6
              /\ e > d
              /\ (e = n + 1 \/ text[e] = 58)
    IN  IF ~ok THEN [ok |-> FALSE, number |-> 0, title |-> <<>>]
        ELSE [ok     |-> TRUE,
              number |-> StrToInt(SubSeq(text, d, e - 1)),
              title  |-> IF e = n + 1 THEN <<>> ELSE SubSeq(text, t, n)]

\* re.compile(r'^##\s+Slide\s+(\d+)(?::\s*(.*))?$', re.IGNORECASE).match(text)
MatchSlideMd(text) ==
    LET n == Len(text)
        d == IF \E i \in 3..n : ~IsSpace(text[i])
             THEN Min({i \in 3..n : ~IsSpace(text[i])}) ELSE n + 1
    IN  IF StartsWith(text, <<35, 35>>) /\ d > 3
        THEN MatchSlide(SubSeq(text, d, n))
        ELSE [ok |-> FALSE, number |-> 0, title |-> <<>>]

\* re.compile(r'^[─═]{10,}$').match(text)
IsSeparator(text) ==
    /\ Len(text) >= 10
    /\ \A i \in 1..Len(text) : text[i] \in {9472, 9552}

\* the header line of a record: "Slide N: title" or "Slide N"
HeaderText(note, title) ==
    IF note.slide_title # <<>>
    THEN SlideWord \o <<SP>> \o IntToStr(note.slide_number) \o <<58, SP>> \o title
    ELSE SlideWord \o <<SP>> \o IntToStr(note.slide_number)

\* the concatenation of the lists parts[1], parts[2], ...
Concat(parts) ==
    LET F[k \in 0..Len(parts)] ==
            IF k = 0 THEN <<>> ELSE F[k - 1] \o parts[k]
    IN  F[Len(parts)]

\* the notes are written as they are, empty or not
TxtLines_no_placeholder(note) ==
    << HeaderText(note, note.slide_title),
       ThinRule,
       <<>>,
       note.notes,
       <<>>,
       ThickRule,
       <<>> >>

\* the lines export_to_txt appends for one record
TxtLines(note) ==
    << HeaderText(note, note.slide_title),
       ThinRule,
       <<>>,
       IF note.notes # <<>> THEN note.notes ELSE NoNotes,
       <<>>,
       ThickRule,
       <<>> >>

\* export_to_txt: the text written to the file
export_to_txt(notes) ==
    Join(Concat([k \in 1..Len(notes) |-> TxtLines(notes[k])]))

\* the lines export_to_md appends for one record
MdLines(note) ==
    << <<35, 35, SP>> \o HeaderText(note, note.slide_title),
       <<>>,
       IF note.notes # <<>> THEN note.notes ELSE NoNotesMd,
       <<>>,
       MdRule,
       <<>> >>

\* export_to_md: the text written to the file
export_to_md(notes) ==
    Join(<< MdDocTitle, <<>> >>
         \o Concat([k \in 1..Len(notes) |-> MdLines(notes[k])]))

Para(text, bold, italic) ==
    [text |-> text, bold |-> bold, italic |-> italic]

\* lines 330-342: the paragraphs written for the notes of one slide
DocxBody(notes_text) ==
    IF notes_text # <<>>
    THEN LET paragraphs == Split(sanitize_text(notes_text))
             kept == SelectSeq(paragraphs, LAMBDA q : Strip(q) # <<>>)
         IN  [k \in 1..Len(kept) |-> Para(Strip(kept[k]), FALSE, FALSE)]
    ELSE << Para(NoNotes, FALSE, TRUE) >>

\* the paragraphs export_to_docx adds for one record
DocxParas(note) ==
    << Para(HeaderText(note, sanitize_text(note.slide_title)), TRUE, FALSE),
       Para(ThinRule, FALSE, FALSE) >>
    \o DocxBody(note.notes)
    \o << Para(<<>>, FALSE, FALSE) >>

\* export_to_docx: the paragraphs of the saved document
export_to_docx(notes) ==
    Concat([k \in 1..Len(notes) |-> DocxParas(notes[k])])

\* the parsers' state before the first line
ParseStart ==
    [data |-> <<>>, open |-> FALSE, number |-> 0, title |-> <<>>, buf |-> <<>>]

\* "save previous slide": the record appended for the open slide, if any
Flush(st, placeholder) ==
    IF ~st.open THEN st.data
    ELSE LET joined == Strip(Join(st.buf))
         IN  Append(st.data,
                    [slide_number |-> st.number,
                     slide_title  |-> st.title,
                     notes        |-> IF joined = placeholder THEN <<>> ELSE joined])

\* the header branch without "save previous slide"
StartSlide_no_flush(st, m, placeholder) ==
    [data   |-> st.data,
     open   |-> TRUE,
     number |-> m.number,
     title  |-> m.title,
     buf    |-> <<>>]

\* the header branch: flush the open slide and start the matched one
StartSlide(st, m, placeholder) ==
    [data   |-> Flush(st, placeholder),
     open   |-> TRUE,
     number |-> m.number,
     title  |-> m.title,
     buf    |-> <<>>]

\* the body of the for loop of _parse_txt for one line
TxtStep(st, line) ==
    LET text == Strip(line)
        m == MatchSlide(text)
    IN  IF IsSeparator(text) THEN st
        ELSE IF m.ok THEN StartSlide(st, m, NoNotes)
        ELSE IF st.open /\ text # NoNotes
             THEN [st EXCEPT !.buf = Append(@, RStrip(line))]
             ELSE st

\* the body of the for loop of _parse_md for one line
MdStep(st, line) ==
    LET text == Strip(line)
        m == MatchSlideMd(text)
    IN  IF StartsWith(text, <<35, SP>>) \/ text = MdRule THEN st
        ELSE IF m.ok THEN StartSlide(st, m, NoNotesMd)
        ELSE IF st.open /\ text # NoNotesMd
             THEN [st EXCEPT !.buf = Append(@, RStrip(line))]
             ELSE st

\* the body of the for loop of _parse_docx for one paragraph
DocxStep(st, para) ==
    LET text == Strip(para.text)
        m == MatchSlide(text)
    IN  IF text = <<>> \/ IsSeparator(text) THEN st
        ELSE IF m.ok THEN StartSlide(st, m, NoNotes)
        ELSE IF st.open /\ text # NoNotes
             THEN [st EXCEPT !.buf = Append(@, text)]
             ELSE st

\* _parse_txt, on the text of the file
parse_txt(content) ==
    LET lines == Split(content)
        F[k \in 0..Len(lines)] ==
            IF k = 0 THEN ParseStart ELSE TxtStep(F[k - 1], lines[k])
    IN  Flush(F[Len(lines)], NoNotes)

\* _parse_md, on the text of the file
parse_md(content) ==
    LET lines == Split(content)
        F[k \in 0..Len(lines)] ==
            IF k = 0 THEN ParseStart ELSE MdStep(F[k - 1], lines[k])
    IN  Flush(F[Len(lines)], NoNotesMd)

\* _parse_docx, on the paragraphs of the document
parse_docx(paragraphs) ==
    LET F[k \in 0..Len(paragraphs)] ==
            IF k = 0 THEN ParseStart ELSE DocxStep(F[k - 1], paragraphs[k])
    IN  Flush(F[Len(paragraphs)], NoNotes)

(***************************************************************************)
(* Round trip: a snapshot is exported in one format and parsed back.       *)
(***************************************************************************)

\* longest snapshot exported
MaxRTRecs ==
    2

RTSlideNumbers ==
    {1, 12}

\* "", "T"
RTTitles ==
    {<<>>, <<84>>}

\* "", "a", "a\n\nb", "[No notes]"
RTNotes ==
    {<<>>, <<97>>, <<97, LF, LF, 98>>, NoNotes}

RTRecords ==
    [slide_number : RTSlideNumbers, slide_title : RTTitles, notes : RTNotes]

InitRT ==
    /\ pc = "export"
    /\ fmt \in {"txt", "md", "docx"}
    /\ records \in SeqsUpTo(RTRecords, MaxRTRecs)
    /\ file = <<>>
    /\ parsed = <<>>
    /\ units = <<>>
    /\ san_in = <<>>
    /\ san_out = <<>>
    /\ san_again = <<>>
    /\ CmpIdle
    /\ ApplyIdle
    /\ AttachIdle
    /\ CliIdle

RTFrame ==
    /\ UNCHANGED <<fmt, records, units, san_in, san_out, san_again>>
    /\ UNCHANGED attachVars
    /\ UNCHANGED cliVars
    /\ UNCHANGED cmpVars
    /\ UNCHANGED applyVars

ExportTxt ==
    /\ pc = "export" /\ fmt = "txt"
    /\ file' = export_to_txt(records)
    /\ pc' = "parse"
    /\ UNCHANGED parsed
    /\ RTFrame

ExportMd ==
    /\ pc = "export" /\ fmt = "md"
    /\ file' = export_to_md(records)
    /\ pc' = "parse"
    /\ UNCHANGED parsed
    /\ RTFrame

ExportDocx ==
    /\ pc = "export" /\ fmt = "docx"
    /\ file' = export_to_docx(records)
    /\ pc' = "parse"
    /\ UNCHANGED parsed
    /\ RTFrame

\* parse_notes_file, .txt
ParseTxt ==
    /\ pc = "parse" /\ fmt = "txt"
    /\ parsed' = parse_txt(file)
    /\ pc' = "parsed"
    /\ UNCHANGED file
    /\ RTFrame

\* parse_notes_file, .md
ParseMd ==
    /\ pc = "parse" /\ fmt = "md"
    /\ parsed' = parse_md(file)
    /\ pc' = "parsed"
    /\ UNCHANGED file
    /\ RTFrame

\* parse_notes_file, .docx
ParseDocx ==
    /\ pc = "parse" /\ fmt = "docx"
    /\ parsed' = parse_docx(file)
    /\ pc' = "parsed"
    /\ UNCHANGED file
    /\ RTFrame

NextRT ==
    \/ ExportTxt
    \/ ExportMd
    \/ ExportDocx
    \/ ParseTxt
    \/ ParseMd
    \/ ParseDocx

SpecRT ==
    InitRT /\ [][NextRT]_vars

(***************************************************************************)
(* Properties of the round trip, checked under SpecRT.                     *)
(***************************************************************************)

\* needle occurs in text
Contains(text, needle) ==
    \E i \in 1..(Len(text) - Len(needle) + 1) :
        SubSeq(text, i, i + Len(needle) - 1) = needle

\* C1: for each format and any records whose notes hold no "[No notes]"
\* text, the parsed file has as many records as were written, with the same
\* slide_number, the same slide_title and the same notes after trimming,
\* position by position.
C1_RoundTrip ==
    (/\ pc = "parsed"
     /\ \A i \in 1..Len(records) : ~Contains(records[i].notes, NoNotes)) =>
        /\ Len(parsed) = Len(records)
        /\ \A i \in 1..Len(parsed) :
            /\ parsed[i].slide_number = records[i].slide_number
            /\ parsed[i].slide_title = records[i].slide_title
            /\ Strip(parsed[i].notes) = Strip(records[i].notes)

\* the body written for the i-th record: the paragraphs (for .txt and .md the
\* lines, as plain paragraphs) between the i-th header of the file and the
\* next one that are neither empty nor a rule
WrittenBody(i) ==
    LET paras == IF fmt = "docx" THEN file
                 ELSE LET lines == Split(file)
                      IN  [k \in 1..Len(lines) |-> Para(lines[k], FALSE, FALSE)]
        IsHeader(q) == IF fmt = "md" THEN MatchSlideMd(q.text).ok
                       ELSE MatchSlide(q.text).ok
        hp == {k \in 1..Len(paras) : IsHeader(paras[k])}
        first == CHOOSE c \in hp : Cardinality({x \in hp : x < c}) = i - 1
        last == IF \E c \in hp : c > first
                THEN Min({c \in hp : c > first}) - 1 ELSE Len(paras)
    IN  IF Cardinality(hp) < i THEN <<>>
        ELSE SelectSeq(SubSeq(paras, first + 1, last),
                       LAMBDA q : /\ q.text # <<>>
                                  /\ ~IsSeparator(q.text)
                                  /\ q.text # MdRule)

\* C16 as stated: for a record with empty notes every serializer writes, as
\* the slide's body, the text "[No notes]": plain in .txt and .md, as one
\* italic paragraph in .docx.
C16_PlainPlaceholderWritten ==
    pc \in {"parse", "parsed"} =>
        \A i \in 1..Len(records) :
            records[i].notes = <<>> =>
                WrittenBody(i) = << Para(NoNotes, FALSE, fmt = "docx") >>

\* C16, amended: for a record with empty notes the body written is the
\* placeholder of the format: "[No notes]" as plain text in .txt,
\* "*[No notes]*" in .md, "[No notes]" as one italic paragraph in .docx.
C16_PlaceholderWritten ==
    pc \in {"parse", "parsed"} =>
        \A i \in 1..Len(records) :
            records[i].notes = <<>> =>
                WrittenBody(i) =
                    << Para(IF fmt = "md" THEN NoNotesMd ELSE NoNotes,
                            FALSE, fmt = "docx") >>

\* C16 witness: a .docx file was written for two records, the second with
\* empty notes, and its body is the italic "[No notes]" paragraph.
C16_Witness ==
    /\ pc = "parse"
    /\ fmt = "docx"
    /\ Len(records) = 2
    /\ records[1].notes # <<>>
    /\ records[2].notes = <<>>
    /\ WrittenBody(2) = << Para(NoNotes, FALSE, TRUE) >>

(***************************************************************************)
(* Parsing an edited file.  The file is made of units, one per line (.txt, *)
(* .md) or paragraph (.docx); a unit records what the editor meant by it   *)
(* (kind, and for a header its number and title), the text without padding *)
(* (core) and the text as typed (text).                                    *)
(***************************************************************************)

\* most lines (paragraphs) of an edited file
MaxUnits ==
    3

Unit(kind, number, title, core, text) ==
    [kind |-> kind, number |-> number, title |-> title, core |-> core,
     text |-> text]

\* "Slide 1", "Slide 0", "slide 2: T"
TxtHeaders ==
    { Unit("header", 1, <<>>, SlideWord \o <<SP, 49>>, SlideWord \o <<SP, 49>>),
      Unit("header", 0, <<>>, SlideWord \o <<SP, 48>>, SlideWord \o <<SP, 48>>),
      Unit("header", 2, <<84>>, <<115, 108, 105, 100, 101, SP, 50, 58, SP, 84>>,
           <<115, 108, 105, 100, 101, SP, 50, 58, SP, 84>>) }

\* "## Slide 1", "## Slide 0", "## slide 2: T"
MdHeaders ==
    { Unit("header", u.number, u.title, <<35, 35, SP>> \o u.core,
           <<35, 35, SP>> \o u.text) : u \in TxtHeaders }

\* "a", "a\x01", ""
BodyUnits ==
    { Unit("body", 0, <<>>, <<97>>, <<97>>),
      Unit("body", 0, <<>>, <<97, 1>>, <<97, 1>>),
      Unit("blank", 0, <<>>, <<>>, <<>>) }

\* "[No notes]" and "  [No notes] "; in a .md file they are body text
PlainPlaceholders(kind) ==
    { Unit(kind, 0, <<>>, NoNotes, NoNotes),
      Unit(kind, 0, <<>>, NoNotes, <<SP, SP>> \o NoNotes \o <<SP>>) }

\* "*[No notes]*" and "  *[No notes]* "
MdPlaceholders ==
    { Unit("placeholder", 0, <<>>, NoNotesMd, NoNotesMd),
      Unit("placeholder", 0, <<>>, NoNotesMd, <<SP, SP>> \o NoNotesMd \o <<SP>>) }

TxtUnits ==
    TxtHeaders \cup BodyUnits \cup PlainPlaceholders("placeholder")
        \cup { Unit("rule", 0, <<>>, ThinRule, ThinRule) }

MdUnits ==
    MdHeaders \cup BodyUnits \cup PlainPlaceholders("body") \cup MdPlaceholders
        \cup { Unit("rule", 0, <<>>, MdRule, MdRule),
               Unit("decoration", 0, <<>>, MdDocTitle, MdDocTitle) }

UnitsOf(f) ==
    IF f = "md" THEN MdUnits ELSE TxtUnits

\* the file the units make: text for .txt and .md, paragraphs for .docx
EditedFile(f, us) ==
    IF f = "docx" THEN [k \in 1..Len(us) |-> Para(us[k].text, FALSE, FALSE)]
    ELSE Join([k \in 1..Len(us) |-> us[k].text])

InitParse ==
    /\ pc = "parse"
    /\ fmt \in {"txt", "md", "docx"}
    /\ units \in SeqsUpTo(UnitsOf(fmt), MaxUnits)
    /\ file = EditedFile(fmt, units)
    /\ records = <<>>
    /\ parsed = <<>>
    /\ san_in = <<>>
    /\ san_out = <<>>
    /\ san_again = <<>>
    /\ CmpIdle
    /\ ApplyIdle
    /\ AttachIdle
    /\ CliIdle

NextParse ==
    \/ ParseTxt
    \/ ParseMd
    \/ ParseDocx

SpecParse ==
    InitParse /\ [][NextParse]_vars

(***************************************************************************)
(* Properties of the parsers, checked under SpecParse.                     *)
(***************************************************************************)

\* the header units of the file, in file order
Headers ==
    SelectSeq(units, LAMBDA u : u.kind = "header")

HeaderPos ==
    {k \in 1..Len(units) : units[k].kind = "header"}

\* the position of the i-th header unit
NthHeader(i) ==
    CHOOSE c \in HeaderPos : Cardinality({x \in HeaderPos : x < c}) = i - 1

\* the units between the i-th header and the next header or the end
Section(i) ==
    SubSeq(units, NthHeader(i) + 1,
           IF i = Cardinality(HeaderPos) THEN Len(units) ELSE NthHeader(i + 1) - 1)

\* the units of the i-th slide's body that are neither blank nor decoration
BodyOf(i) ==
    SelectSeq(Section(i), LAMBDA u : u.kind \in {"body", "placeholder"})

\* C14: the parsed snapshot has one record per header unit of the file, in
\* file order and with that header's slide number; so units before the first
\* header give no record, a file without header gives the empty snapshot,
\* the last slide is flushed, and a number heading two sections gives two
\* records.
C14_OneRecordPerHeader ==
    pc = "parsed" =>
        /\ Len(parsed) = Len(Headers)
        /\ \A i \in 1..Len(parsed) : parsed[i].slide_number = Headers[i].number

\* C14 witness: a body line, then two headers with the same number: two
\* records with that number were parsed.
C14_Witness ==
    /\ pc = "parsed"
    /\ Len(units) = 3
    /\ units[1].kind = "body"
    /\ units[2].kind = "header"
    /\ units[3].kind = "header"
    /\ units[2].number = units[3].number
    /\ Len(parsed) = 2
    /\ parsed[1].slide_number = parsed[2].slide_number

\* the empty-notes placeholder of a format
PlaceholderOf(f) ==
    IF f = "md" THEN NoNotesMd ELSE NoNotes

\* C15 as stated: in each of the three parsers, a slide whose body is, after
\* trimming, exactly "[No notes]" is returned with empty notes.
C15_PlainPlaceholderCollapsed ==
    pc = "parsed" =>
        \A i \in 1..Len(Headers) :
            (Len(BodyOf(i)) = 1 /\ BodyOf(i)[1].core = NoNotes) =>
                (i <= Len(parsed) /\ parsed[i].notes = <<>>)

\* C15, amended: a slide whose body is, after trimming, exactly the
\* placeholder of the file's format ("[No notes]" in .txt and .docx,
\* "*[No notes]*" in .md) is returned with empty notes.
C15_PlaceholderCollapsed ==
    pc = "parsed" =>
        \A i \in 1..Len(Headers) :
            (Len(BodyOf(i)) = 1 /\ BodyOf(i)[1].core = PlaceholderOf(fmt)) =>
                (i <= Len(parsed) /\ parsed[i].notes = <<>>)

\* C15 witness: a .md slide whose body is a blank line and a padded
\* "*[No notes]*" was parsed to a record with empty notes.
C15_Witness ==
    /\ pc = "parsed"
    /\ fmt = "md"
    /\ Len(units) = 3
    /\ units[1].kind = "header"
    /\ units[2].kind = "blank"
    /\ units[3].core = NoNotesMd
    /\ units[3].text # NoNotesMd
    /\ Len(parsed) = 1
    /\ parsed[1].notes = <<>>

\* the characters sanitize_text is to remove
IsControl(c) ==
    c \in ((0..31) \ {9, 10, 13}) \cup {127}

HasControl(text) ==
    \E k \in 1..Len(text) : IsControl(text[k])

\* C19: no record returned by a parser holds, in its title or its notes, a
\* control character other than tab, line feed and carriage return, or the
\* delete character.
C19_ParsedSanitized ==
    pc = "parsed" =>
        \A i \in 1..Len(parsed) :
            /\ ~HasControl(parsed[i].slide_title)
            /\ ~HasControl(parsed[i].notes)

\* C20: the records of a parsed snapshot have pairwise distinct slide
\* numbers.
C20_ParsedDistinct ==
    pc = "parsed" =>
        \A i, j \in 1..Len(parsed) :
            parsed[i].slide_number = parsed[j].slide_number => i = j

\* C21: every record a parser returns has a slide number of at least 1.
C21_ParsedPositive ==
    pc = "parsed" =>
        \A i \in 1..Len(parsed) : parsed[i].slide_number >= 1

(***************************************************************************)
(* sanitize_text applied to a text, and again to its own result.           *)
(***************************************************************************)

\* longest text given to sanitize_text
MaxSanLen ==
    4

\* NUL, tab, line feed, carriage return, US, "a", DEL
SanChars ==
    {0, 9, 10, 13, 31, 97, 127}

InitSan ==
    /\ pc = "sanitize"
    /\ san_in \in SeqsUpTo(SanChars, MaxSanLen)
    /\ san_out = <<>>
    /\ san_again = <<>>
    /\ fmt = "txt"
    /\ records = <<>>
    /\ file = <<>>
    /\ parsed = <<>>
    /\ units = <<>>
    /\ CmpIdle
    /\ ApplyIdle
    /\ AttachIdle
    /\ CliIdle

SanFrame ==
    /\ UNCHANGED <<san_in, fmt, records, file, parsed, units>>
    /\ UNCHANGED attachVars
    /\ UNCHANGED cliVars
    /\ UNCHANGED cmpVars
    /\ UNCHANGED applyVars

\* sanitize_text(text)
Sanitize ==
    /\ pc = "sanitize"
    /\ san_out' = sanitize_text(san_in)
    /\ pc' = "sanitized"
    /\ UNCHANGED san_again
    /\ SanFrame

\* sanitize_text applied to the text it returned
SanitizeAgain ==
    /\ pc = "sanitized"
    /\ san_again' = sanitize_text(san_out)
    /\ pc' = "resanitized"
    /\ UNCHANGED san_out
    /\ SanFrame

NextSan ==
    \/ Sanitize
    \/ SanitizeAgain

SpecSan ==
    InitSan /\ [][NextSan]_vars

(***************************************************************************)
(* Properties of sanitize_text, checked under SpecSan.                     *)
(***************************************************************************)

\* C17: the text returned is the argument's characters other than the
\* controls 0-31 except tab, line feed and carriage return, and other than
\* DEL: one character per kept position, in the order of the positions.
C17_SanitizeRemovesExactly ==
    pc \in {"sanitized", "resanitized"} =>
        LET keep == {k \in 1..Len(san_in) : ~IsControl(san_in[k])}
        IN  /\ Len(san_out) = Cardinality(keep)
            /\ \A j \in 1..Len(san_out) :
                   \E c \in keep :
                       /\ Cardinality({x \in keep : x < c}) = j - 1
                       /\ san_out[j] = san_in[c]

\* C17 witness: "\x00\ta\x7f" was sanitized to "\ta".
C17_Witness ==
    /\ pc = "sanitized"
    /\ san_in = <<0, 9, 97, 127>>
    /\ san_out = <<9, 97>>

\* C18: sanitizing the sanitized text returns it unchanged.
C18_SanitizeIdempotent ==
    pc = "resanitized" => san_again = san_out

\* C18 witness: a text with two characters to delete was sanitized twice;
\* the first pass changed it and the second pass did not.
C18_Witness ==
    /\ pc = "resanitized"
    /\ Cardinality({k \in 1..Len(san_in) : IsControl(san_in[k])}) >= 2
    /\ san_out # san_in
    /\ san_out # <<>>
    /\ san_again = san_out

(***************************************************************************)
(* voxattach: attach_or_skip and reset_for_new_run, with the user opening  *)
(* and closing decks in PowerPoint between calls.  A deck is named by its  *)
(* resolved, lower-cased path.  events records every call and user action. *)
(***************************************************************************)

\* most calls and user actions of one behaviour
MaxEvents ==
    4

Decks ==
    {"a.pptx", "b.pptx"}

Event(op, deck, mode, was_open, staged, attempted, attached, reason) ==
    [op |-> op, deck |-> deck, mode |-> mode, was_open |-> was_open,
     staged |-> staged, attempted |-> attempted, attached |-> attached,
     reason |-> reason]

\* is_deck_open: without COM no running application is found
is_deck_open(d) ==
    win32 # "None" /\ d \in open_decks

\* the run mode is decided at every call, as before version 1.1
RunModeFor_every_call(d) ==
    [mode |-> IF is_deck_open(d) THEN "process_only" ELSE "attach",
     path |-> d]

\* lines 243-250: _RUN_MODE after the "decide run-mode" block of a call
RunModeFor(d) ==
    IF run_mode.mode = "None" \/ (run_mode.path # "None" /\ run_mode.path # d)
    THEN [mode |-> IF is_deck_open(d) THEN "process_only" ELSE "attach",
          path |-> d]
    ELSE run_mode

\* _ensure_session reuses _SESSION: same deck and the COM object is alive
SessionAlive(d) ==
    session.pres # "None" /\ session.path = d /\ d \in open_decks

\* _SESSION after a successful _ensure_session(d)
SessionFor(d) ==
    IF SessionAlive(d) THEN session
    ELSE [app |-> "app", pres |-> d, path |-> d,
          opened_by_us |-> d \notin open_decks]

\* _SESSION after _ensure_session(d) raised: a stale session was dropped
SessionDropped(d) ==
    IF session.pres # "None" /\ session.path = d THEN NoSession ELSE session

InitAttach ==
    /\ pc = "attach"
    /\ win32 \in {"None", "win32com"}
    /\ run_mode = NoRunMode
    /\ session = NoSession
    /\ open_decks \in SUBSET Decks
    /\ events = <<>>
    /\ CmpIdle
    /\ ApplyIdle
    /\ RTIdle
    /\ CliIdle

AttachFrame ==
    /\ Len(events) < MaxEvents
    /\ UNCHANGED <<pc, win32>>
    /\ UNCHANGED cmpVars
    /\ UNCHANGED applyVars
    /\ UNCHANGED rtVars
    /\ UNCHANGED cliVars

\* the mode is cleared and the open deck is closed with it
reset_for_new_run_closing ==
    /\ run_mode' = NoRunMode
    /\ session' = NoSession
    /\ open_decks' = open_decks \ {session.path}
    /\ events' = Append(events, Event("reset", "None", "None", FALSE, FALSE,
                                      FALSE, FALSE, "None"))
    /\ AttachFrame

\* lines 82-89
reset_for_new_run ==
    /\ run_mode' = NoRunMode
    /\ events' = Append(events, Event("reset", "None", "None", FALSE, FALSE,
                                      FALSE, FALSE, "None"))
    /\ UNCHANGED <<session, open_decks>>
    /\ AttachFrame

\* line 238 and lines 35-37: the source audio is missing, process_audio raises
AttachAudioMissing ==
    \E d \in Decks :
        /\ events' = Append(events, Event("attach_or_skip", d, run_mode.mode,
                                          d \in open_decks, FALSE, FALSE,
                                          FALSE, "raised"))
        /\ UNCHANGED <<run_mode, session, open_decks>>
        /\ AttachFrame

\* lines 243-255: the mode is decided if need be, then COM is unavailable
AttachNoCom ==
    \E d \in Decks :
        /\ win32 = "None"
        /\ run_mode' = RunModeFor(d)
        /\ events' = Append(events, Event("attach_or_skip", d, run_mode'.mode,
                                          d \in open_decks, TRUE, FALSE,
                                          FALSE, "no_com"))
        /\ UNCHANGED <<session, open_decks>>
        /\ AttachFrame

\* lines 257-259: process_only, the call returns without touching the deck
AttachProcessOnly ==
    \E d \in Decks :
        /\ win32 # "None"
        /\ run_mode' = RunModeFor(d)
        /\ run_mode'.mode = "process_only"
        /\ events' = Append(events, Event("attach_or_skip", d, run_mode'.mode,
                                          d \in open_decks, TRUE, FALSE,
                                          FALSE, "open_process_only"))
        /\ UNCHANGED <<session, open_decks>>
        /\ AttachFrame

\* lines 262-265: the session is opened or reused and the audio attached
AttachAttached ==
    \E d \in Decks :
        /\ win32 # "None"
        /\ run_mode' = RunModeFor(d)
        /\ run_mode'.mode = "attach"
        /\ session' = SessionFor(d)
        /\ open_decks' = open_decks \cup {d}
        /\ events' = Append(events, Event("attach_or_skip", d, run_mode'.mode,
                                          d \in open_decks, TRUE, TRUE,
                                          TRUE, "None"))
        /\ AttachFrame

\* lines 262-263 and 266-268: Presentations.Open raises in _ensure_session
AttachSessionRaises ==
    \E d \in Decks :
        /\ win32 # "None"
        /\ d \notin open_decks
        /\ run_mode' = RunModeFor(d)
        /\ run_mode'.mode = "attach"
        /\ session' = SessionDropped(d)
        /\ events' = Append(events, Event("attach_or_skip", d, run_mode'.mode,
                                          d \in open_decks, TRUE, TRUE,
                                          FALSE, "exception"))
        /\ UNCHANGED open_decks
        /\ AttachFrame

\* lines 264 and 266-268: the session is there, Slides or AddMediaObject2
\* raises in _attach_on_open_presentation
AttachSlideRaises ==
    \E d \in Decks :
        /\ win32 # "None"
        /\ run_mode' = RunModeFor(d)
        /\ run_mode'.mode = "attach"
        /\ session' = SessionFor(d)
        /\ open_decks' = open_decks \cup {d}
        /\ events' = Append(events, Event("attach_or_skip", d, run_mode'.mode,
                                          d \in open_decks, TRUE, TRUE,
                                          FALSE, "exception"))
        /\ AttachFrame

\* the user opens a deck in PowerPoint
UserOpensDeck ==
    \E d \in Decks \ open_decks :
        /\ open_decks' = open_decks \cup {d}
        /\ events' = Append(events, Event("user_open", d, "None", FALSE, FALSE,
                                          FALSE, FALSE, "None"))
        /\ UNCHANGED <<run_mode, session>>
        /\ AttachFrame

\* the user closes a deck in PowerPoint
UserClosesDeck ==
    \E d \in open_decks :
        /\ open_decks' = open_decks \ {d}
        /\ events' = Append(events, Event("user_close", d, "None", FALSE, FALSE,
                                          FALSE, FALSE, "None"))
        /\ UNCHANGED <<run_mode, session>>
        /\ AttachFrame

NextAttach ==
    \/ reset_for_new_run
    \/ AttachAudioMissing
    \/ AttachNoCom
    \/ AttachProcessOnly
    \/ AttachAttached
    \/ AttachSessionRaises
    \/ AttachSlideRaises
    \/ UserOpensDeck
    \/ UserClosesDeck

SpecAttach ==
    InitAttach /\ [][NextAttach]_vars

(***************************************************************************)
(* Properties of voxattach, checked under SpecAttach.                      *)
(***************************************************************************)

\* the calls of attach_or_skip that staged their audio and so reached the
\* run-mode block
StagedCalls ==
    {k \in 1..Len(events) :
        events[k].op = "attach_or_skip" /\ events[k].staged}

\* the staged calls and resets before event k
Before(k) ==
    {j \in 1..(k - 1) : j \in StagedCalls \/ events[j].op = "reset"}

\* call k is the first one after module load or a reset, or follows a call
\* for a different deck
Decides(k) ==
    \/ Before(k) = {}
    \/ events[Max(Before(k))].op = "reset"
    \/ events[Max(Before(k))].deck # events[k].deck

C30_ResetLeavesSession ==
    \A i \in 1..Len(events) :
        events[i].attached =>
            LET d == events[i].deck
                kept(n) == \A m \in (i + 1)..n :
                               ~(events[m].op = "user_close" /\ events[m].deck = d)
            IN  /\ kept(Len(events)) => d \in open_decks
                /\ (\A m \in (i + 1)..Len(events) :
                        events[m].op \in {"reset", "user_open"}) =>
                       (session.pres = d /\ session.path = d)
                /\ \A r \in (i + 1)..Len(events) : \A k \in (r + 1)..Len(events) :
                       (/\ events[r].op = "reset"
                        /\ k \in StagedCalls
                        /\ events[k].deck = d
                        /\ Max(Before(k)) = r
                        /\ kept(k)) =>
                           /\ events[k].was_open
                           /\ events[k].mode = "process_only"
                           /\ \A m \in k..Len(events) :
                                  (/\ m \in StagedCalls
                                   /\ \A n \in k..m :
                                          /\ events[n].op # "reset"
                                          /\ n \in StagedCalls =>
                                                 events[n].deck = d) =>
                                      ~events[m].attached

\* C30 witness: a call attached to a deck, reset_for_new_run followed, and
\* the next two calls for the deck were process_only and attached nothing.
C30_Witness ==
    /\ Len(events) = 4
    /\ events[1].attached
    /\ events[2].op = "reset"
    /\ \A k \in {3, 4} :
           /\ events[k].op = "attach_or_skip"
           /\ events[k].deck = events[1].deck
           /\ events[k].mode = "process_only"
           /\ events[k].reason = "open_process_only"
    /\ session.pres = events[1].deck

(***************************************************************************)
(* The command line (__main__), export_notes, import_notes and             *)
(* extract_notes.  extract_notes is stepped like apply_notes, one action   *)
(* per collaborator call; while it runs, app, pres, attempt, pending, exc  *)
(* and outcome are its locals and calls is the log of its collaborator     *)
(* calls.  import_notes hands the change list of compare_notes to          *)
(* apply_notes, whose actions above run from "apply_start" to "done".      *)
(***************************************************************************)

\* the decks on disk, notes per slide: ("o", "o") and ("a", "")
CliDecks ==
    { << <<111>>, <<111>> >>, << <<97>>, <<>> >> }

\* the header line (paragraph) of slide n in an edited file of format f
HeaderUnit(f, n) ==
    CHOOSE u \in UnitsOf(f) : u.kind = "header" /\ u.number = n

\* the body line (paragraph) with the given text
BodyUnit(core) ==
    CHOOSE u \in BodyUnits : u.core = core

\* the edited files given to import and preview: empty; slide 1 "a";
\* slide 1 "a\x01"; slides 1 and 2 "a"; slide 2 emptied; slide 0 "a"
CliUnitLists(f) ==
    { <<>>,
      << HeaderUnit(f, 1), BodyUnit(<<97>>) >>,
      << HeaderUnit(f, 1), BodyUnit(<<97, 1>>) >>,
      << HeaderUnit(f, 1), BodyUnit(<<97>>), HeaderUnit(f, 2), BodyUnit(<<97>>) >>,
      << HeaderUnit(f, 2), BodyUnit(<<>>) >>,
      << HeaderUnit(f, 0), BodyUnit(<<97>>) >> }

KnownFormats ==
    {"txt", "md", "docx"}

Commands ==
    {"export", "import", "preview"}

\* one line printed to a stream: its kind and the exception it reports
Msg(kind, about) ==
    <<kind, about>>

InitCli ==
    /\ pc = "cli"
    /\ command \in Commands \cup {"None", "other"}
    /\ IF command = "None" THEN argc = 1 ELSE argc \in {3, 4}
    /\ fmt \in KnownFormats \cup {"pdf"}
    /\ IF command \in {"import", "preview"} /\ fmt \in KnownFormats
       THEN units \in CliUnitLists(fmt)
       ELSE units = <<>>
    /\ file = IF command \in {"import", "preview"} /\ fmt \in KnownFormats
              THEN EditedFile(fmt, units)
              ELSE <<>>
    /\ disk_notes \in CliDecks
    /\ exit_code = -1
    /\ stdout = <<>>
    /\ stderr = <<>>
    /\ read_failed = {}
    /\ records = <<>>
    /\ parsed = <<>>
    /\ san_in = <<>>
    /\ san_out = <<>>
    /\ san_again = <<>>
    /\ changes_in = <<>>
    /\ slides_to_apply = NoSlideFilter
    /\ todo = <<>>
    /\ idx = 0
    /\ result = NoResult
    /\ app = "None"
    /\ pres = "None"
    /\ attempt = 0
    /\ calls = <<>>
    /\ pending = "none"
    /\ exc = "None"
    /\ outcome = "running"
    /\ pres_notes = <<>>
    /\ CmpIdle
    /\ AttachIdle

\* what no step of the command line, import_notes or extract_notes touches
CliFrame ==
    /\ UNCHANGED <<fmt, units, san_in, san_out, san_again, command, argc,
                   disk_notes, changes_in, slides_to_apply, todo, idx>>
    /\ UNCHANGED attachVars

\* what no step of extract_notes touches
ExtractFrame ==
    /\ UNCHANGED <<file, parsed, result, exit_code, stdout, stderr>>
    /\ UNCHANGED cmpVars
    /\ CliFrame

\* lines 1030-1032, 1038-1040, 1050-1052, 1063-1065 and 1079-1082: no
\* command, too few arguments or an unknown command; usage, exit status 64
CliUsage ==
    /\ pc = "cli"
    /\ argc < 2 \/ argc < 4 \/ command \notin Commands
    /\ stdout' = Append(stdout, Msg("usage", "None"))
    /\ exit_code' = 64
    /\ pc' = "exit"
    /\ UNCHANGED <<file, parsed, records, result, stderr, read_failed, app,
                   pres, attempt, calls, pending, exc, outcome, pres_notes>>
    /\ UNCHANGED cmpVars
    /\ CliFrame

\* lines 1042-1046, 1054-1057 and 1067-1070: the command calls export_notes
\* or import_notes, which call extract_notes first (lines 524 and 994)
CliCall ==
    /\ pc = "cli"
    /\ argc >= 4
    /\ command \in Commands
    /\ pc' = "x_start"
    /\ UNCHANGED <<file, parsed, records, result, exit_code, stdout, stderr,
                   read_failed, app, pres, attempt, calls, pending, exc,
                   outcome, pres_notes>>
    /\ UNCHANGED cmpVars
    /\ CliFrame

\* lines 161-162: pywin32 is not installed
ExtractNoCom ==
    /\ pc = "x_start"
    /\ exc' = "NoCom"
    /\ outcome' = "raised"
    /\ pc' = "extracted"
    /\ UNCHANGED <<records, read_failed, app, pres, attempt, calls, pending,
                   pres_notes>>
    /\ ExtractFrame

\* lines 166-167: the deck is not a file
ExtractNotFound ==
    /\ pc = "x_start"
    /\ exc' = "NotFound"
    /\ outcome' = "raised"
    /\ pc' = "extracted"
    /\ UNCHANGED <<records, read_failed, app, pres, attempt, calls, pending,
                   pres_notes>>
    /\ ExtractFrame

\* lines 173-174: EnsureDispatch or Dispatch raises, app stays None
ExtractDispatchRaises ==
    /\ pc = "x_start"
    /\ calls' = Append(calls, Call("Dispatch", 0))
    /\ pending' = "raised"
    /\ exc' = "Dispatch"
    /\ pc' = "x_close"
    /\ UNCHANGED <<records, read_failed, app, pres, attempt, outcome,
                   pres_notes>>
    /\ ExtractFrame

\* lines 173-175: the application object is created and made visible
ExtractDispatchOk ==
    /\ pc = "x_start"
    /\ calls' = Append(calls, Call("Dispatch", 0))
    /\ app' = "app"
    /\ pc' = "x_open"
    /\ UNCHANGED <<records, read_failed, pres, attempt, pending, exc, outcome,
                   pres_notes>>
    /\ ExtractFrame

\* line 175: the application object exists, app.Visible = True raises
ExtractVisibleRaises ==
    /\ pc = "x_start"
    /\ calls' = Append(calls, Call("Dispatch", 0))
    /\ app' = "app"
    /\ pending' = "raised"
    /\ exc' = "Visible"
    /\ pc' = "x_close"
    /\ UNCHANGED <<records, read_failed, pres, attempt, outcome, pres_notes>>
    /\ ExtractFrame

\* lines 177 and 70-73: Open with read_only=True succeeds
ExtractOpenOk ==
    /\ pc = "x_open"
    /\ attempt' = attempt + 1
    /\ calls' = Append(calls, Call("OpenReadOnly", attempt + 1))
    /\ pres' = "open"
    /\ pres_notes' = disk_notes
    /\ pc' = "x_read"
    /\ UNCHANGED <<records, read_failed, app, pending, exc, outcome>>
    /\ ExtractFrame

\* lines 74-78: Open raises before the last attempt, sleep and try again
ExtractOpenRaisesRetry ==
    /\ pc = "x_open"
    /\ attempt + 1 < COM_RETRY_ATTEMPTS
    /\ attempt' = attempt + 1
    /\ calls' = calls \o <<Call("OpenReadOnly", attempt + 1),
                           Call("Sleep", attempt + 1)>>
    /\ UNCHANGED <<pc, records, read_failed, app, pres, pending, exc, outcome,
                   pres_notes>>
    /\ ExtractFrame

\* lines 74-82 and 238-239: Open raises on the last attempt, RuntimeError
ExtractOpenRaisesLast ==
    /\ pc = "x_open"
    /\ attempt + 1 >= COM_RETRY_ATTEMPTS
    /\ attempt' = attempt + 1
    /\ calls' = Append(calls, Call("OpenReadOnly", attempt + 1))
    /\ pending' = "raised"
    /\ exc' = "Open"
    /\ pc' = "x_close"
    /\ UNCHANGED <<records, read_failed, app, pres, outcome, pres_notes>>
    /\ ExtractFrame

\* lines 184-226: one NotesRecord per slide; the title and the notes are
\* stripped, then sanitized; a notes page that cannot be read gives ""
notes_data(deck, failed) ==
    [i \in 1..Len(deck) |->
        [slide_number |-> i,
         slide_title  |-> sanitize_text(Strip(<<84>>)),
         notes        |-> IF i \in failed THEN <<>>
                          ELSE sanitize_text(Strip(deck[i]))]]

\* lines 179-236: every slide is read and the snapshot returned; the bare
\* except of line 219 swallows the failure of a notes page
ExtractRead ==
    /\ pc = "x_read"
    /\ \E failed \in SUBSET (1..Len(pres_notes)) :
           /\ read_failed' = failed
           /\ records' = notes_data(pres_notes, failed)
    /\ calls' = calls \o [i \in 1..Len(pres_notes) |-> Call("GetNotes", i)]
    /\ pending' = "returned"
    /\ pc' = "x_close"
    /\ UNCHANGED <<app, pres, attempt, exc, outcome, pres_notes>>
    /\ ExtractFrame

\* lines 180, 185 and 238-239: Slides.Count or Slides.Item raises
ExtractReadRaises ==
    /\ pc = "x_read"
    /\ calls' = Append(calls, Call("GetNotes", 1))
    /\ pending' = "raised"
    /\ exc' = "Read"
    /\ pc' = "x_close"
    /\ UNCHANGED <<records, read_failed, app, pres, attempt, outcome,
                   pres_notes>>
    /\ ExtractFrame

\* the failure of pres.Close() leaves the finally block: no Quit, and the
\* call raises whatever the try block ended with
ExtractClosePresRaises_no_quit ==
    /\ pc = "x_close"
    /\ pres = "open"
    /\ calls' = Append(calls, Call("Close", 0))
    /\ outcome' = "raised"
    /\ pc' = "extracted"
    /\ UNCHANGED <<records, read_failed, app, pres, attempt, pending, exc,
                   pres_notes>>
    /\ ExtractFrame

\* lines 243-245: pres.Close() succeeds
ExtractClosePresOk ==
    /\ pc = "x_close"
    /\ pres = "open"
    /\ calls' = Append(calls, Call("Close", 0))
    /\ pres' = "closed"
    /\ pc' = "x_quit"
    /\ UNCHANGED <<records, read_failed, app, attempt, pending, exc, outcome,
                   pres_notes>>
    /\ ExtractFrame

\* lines 243-247: pres.Close() raises, the bare except swallows it
ExtractClosePresRaises ==
    /\ pc = "x_close"
    /\ pres = "open"
    /\ calls' = Append(calls, Call("Close", 0))
    /\ pc' = "x_quit"
    /\ UNCHANGED <<records, read_failed, app, pres, attempt, pending, exc,
                   outcome, pres_notes>>
    /\ ExtractFrame

\* line 243: no presentation was opened
ExtractClosePresSkip ==
    /\ pc = "x_close"
    /\ pres = "None"
    /\ pc' = "x_quit"
    /\ UNCHANGED <<records, read_failed, app, pres, attempt, calls, pending,
                   exc, outcome, pres_notes>>
    /\ ExtractFrame

\* lines 248-250: app.Quit() succeeds, then the call returns or raises
ExtractQuitOk ==
    /\ pc = "x_quit"
    /\ app = "app"
    /\ calls' = Append(calls, Call("Quit", 0))
    /\ app' = "quit"
    /\ outcome' = pending
    /\ pc' = "extracted"
    /\ UNCHANGED <<records, read_failed, pres, attempt, pending, exc,
                   pres_notes>>
    /\ ExtractFrame

\* lines 248-252: app.Quit() raises, the bare except swallows it
ExtractQuitRaises ==
    /\ pc = "x_quit"
    /\ app = "app"
    /\ calls' = Append(calls, Call("Quit", 0))
    /\ outcome' = pending
    /\ pc' = "extracted"
    /\ UNCHANGED <<records, read_failed, app, pres, attempt, pending, exc,
                   pres_notes>>
    /\ ExtractFrame

\* line 248: no application object was created
ExtractQuitSkip ==
    /\ pc = "x_quit"
    /\ app = "None"
    /\ outcome' = pending
    /\ pc' = "extracted"
    /\ UNCHANGED <<records, read_failed, app, pres, attempt, calls, pending,
                   exc, pres_notes>>
    /\ ExtractFrame

\* what no step of export_notes, import_notes or __main__ after
\* extract_notes touches
AfterExtractFrame ==
    /\ UNCHANGED <<records, read_failed>>
    /\ CliFrame

\* the locals of extract_notes and apply_notes, left alone between the calls
CallLocals ==
    <<app, pres, attempt, calls, pending, pres_notes>>

\* lines 527-536: the format is none of docx, txt and md, ValueError
ExportUnknownFormat ==
    /\ pc = "extracted" /\ outcome = "returned"
    /\ command = "export"
    /\ fmt \notin KnownFormats
    /\ exc' = "Format"
    /\ outcome' = "raised"
    /\ pc' = "done"
    /\ UNCHANGED <<file, parsed, result, exit_code, stdout, stderr>>
    /\ UNCHANGED CallLocals
    /\ UNCHANGED cmpVars
    /\ AfterExtractFrame

\* lines 527-534: the snapshot is written in the format of the extension
ExportWrite ==
    /\ pc = "extracted" /\ outcome = "returned"
    /\ command = "export"
    /\ fmt \in KnownFormats
    /\ file' = CASE fmt = "txt"  -> export_to_txt(records)
                 [] fmt = "md"   -> export_to_md(records)
                 [] fmt = "docx" -> export_to_docx(records)
    /\ pc' = "done"
    /\ UNCHANGED <<parsed, result, exit_code, stdout, stderr, exc, outcome>>
    /\ UNCHANGED CallLocals
    /\ UNCHANGED cmpVars
    /\ AfterExtractFrame

\* lines 348, 415 and 485: the output file cannot be written
ExportWriteRaises ==
    /\ pc = "extracted" /\ outcome = "returned"
    /\ command = "export"
    /\ fmt \in KnownFormats
    /\ exc' = "Write"
    /\ outcome' = "raised"
    /\ pc' = "done"
    /\ UNCHANGED <<file, parsed, result, exit_code, stdout, stderr>>
    /\ UNCHANGED CallLocals
    /\ UNCHANGED cmpVars
    /\ AfterExtractFrame

\* lines 994-997: original is the extracted snapshot, the edited file is next
ImportParse ==
    /\ pc = "extracted" /\ outcome = "returned"
    /\ command \in {"import", "preview"}
    /\ original' = records
    /\ pc' = "parse"
    /\ UNCHANGED <<edited, changes>>
    /\ UNCHANGED <<file, parsed, result, exit_code, stdout, stderr, exc,
                   outcome>>
    /\ UNCHANGED CallLocals
    /\ AfterExtractFrame

\* lines 564-573: the extension is none of .docx, .txt and .md, ValueError
ParseUnknownFormat ==
    /\ pc = "parse"
    /\ command \in {"import", "preview"}
    /\ fmt \notin KnownFormats
    /\ exc' = "Format"
    /\ outcome' = "raised"
    /\ pc' = "done"
    /\ UNCHANGED <<file, parsed, result, exit_code, stdout, stderr>>
    /\ UNCHANGED CallLocals
    /\ UNCHANGED cmpVars
    /\ AfterExtractFrame

\* lines 589, 658 and 725: the edited file is not there, the open raises
ParseMissing ==
    /\ pc = "parse"
    /\ command \in {"import", "preview"}
    /\ fmt \in KnownFormats
    /\ exc' = "EditedNotFound"
    /\ outcome' = "raised"
    /\ pc' = "done"
    /\ UNCHANGED <<file, parsed, result, exit_code, stdout, stderr>>
    /\ UNCHANGED CallLocals
    /\ UNCHANGED cmpVars
    /\ AfterExtractFrame

\* lines 997-1000: edited is the parsed snapshot, compare_notes is next
ImportCompare ==
    /\ pc = "parsed"
    /\ command \in {"import", "preview"}
    /\ edited' = parsed
    /\ pc' = "compare"
    /\ UNCHANGED <<original, changes>>
    /\ UNCHANGED <<file, parsed, result, exit_code, stdout, stderr, exc,
                   outcome>>
    /\ UNCHANGED CallLocals
    /\ AfterExtractFrame

\* preview_only is ignored: the changes are applied all the same
ImportPreview_applies ==
    /\ pc = "compared"
    /\ command = "preview"
    /\ changes_in' = changes
    /\ slides_to_apply' = NoSlideFilter
    /\ todo' = <<>>
    /\ idx' = 0
    /\ result' = NoResult
    /\ app' = "None"
    /\ pres' = "None"
    /\ attempt' = 0
    /\ calls' = <<>>
    /\ pending' = "none"
    /\ exc' = "None"
    /\ outcome' = "running"
    /\ pres_notes' = <<>>
    /\ pc' = "apply_start"
    /\ UNCHANGED <<file, parsed, exit_code, stdout, stderr, records,
                   read_failed, fmt, units, san_in, san_out, san_again,
                   command, argc, disk_notes>>
    /\ UNCHANGED cmpVars
    /\ UNCHANGED attachVars

\* lines 1002-1003: preview_only, the change list is returned
ImportPreview ==
    /\ pc = "compared"
    /\ command = "preview"
    /\ pc' = "done"
    /\ UNCHANGED <<file, parsed, result, exit_code, stdout, stderr, exc,
                   outcome>>
    /\ UNCHANGED CallLocals
    /\ UNCHANGED cmpVars
    /\ AfterExtractFrame

\* lines 1006-1007: nothing changed, the empty result is returned
ImportNoChanges ==
    /\ pc = "compared"
    /\ command = "import"
    /\ changes = <<>>
    /\ result' = NoResult
    /\ pc' = "done"
    /\ UNCHANGED <<file, parsed, exit_code, stdout, stderr, exc, outcome>>
    /\ UNCHANGED CallLocals
    /\ UNCHANGED cmpVars
    /\ AfterExtractFrame

\* line 1009: apply_notes is called with the change list and no slide
\* filter; its locals are fresh
ImportApply ==
    /\ pc = "compared"
    /\ command = "import"
    /\ changes # <<>>
    /\ changes_in' = changes
    /\ slides_to_apply' = NoSlideFilter
    /\ todo' = <<>>
    /\ idx' = 0
    /\ result' = NoResult
    /\ app' = "None"
    /\ pres' = "None"
    /\ attempt' = 0
    /\ calls' = <<>>
    /\ pending' = "none"
    /\ exc' = "None"
    /\ outcome' = "running"
    /\ pres_notes' = <<>>
    /\ pc' = "apply_start"
    /\ UNCHANGED <<file, parsed, exit_code, stdout, stderr, records,
                   read_failed, fmt, units, san_in, san_out, san_again,
                   command, argc, disk_notes>>
    /\ UNCHANGED cmpVars
    /\ UNCHANGED attachVars

\* what no step of __main__ after the call touches
MainFrame ==
    /\ UNCHANGED <<file, parsed, result, exc, outcome>>
    /\ UNCHANGED CallLocals
    /\ UNCHANGED cmpVars
    /\ AfterExtractFrame

\* lines 1046-1047: export_notes returned, the path is printed
CliExported ==
    /\ pc = "done" /\ outcome = "returned"
    /\ command = "export"
    /\ stdout' = Append(stdout, Msg("Created", "None"))
    /\ exit_code' = 0
    /\ pc' = "exit"
    /\ UNCHANGED stderr
    /\ MainFrame

\* lines 1057-1060: import_notes returned; the applied slides are printed,
\* and the errors if there are any
CliImported ==
    /\ pc = "done" /\ outcome = "returned"
    /\ command = "import"
    /\ stdout' = stdout \o
           (IF result.errors # <<>>
            THEN <<Msg("Applied", "None"), Msg("Errors", "None")>>
            ELSE <<Msg("Applied", "None")>>)
    /\ exit_code' = 0
    /\ pc' = "exit"
    /\ UNCHANGED stderr
    /\ MainFrame

\* lines 1070-1077: the preview returned, the changes are printed
CliPreviewed ==
    /\ pc = "done" /\ outcome = "returned"
    /\ command = "preview"
    /\ stdout' = Append(stdout, IF changes = <<>>
                                THEN Msg("NoChanges", "None")
                                ELSE Msg("Changes", "None"))
    /\ exit_code' = 0
    /\ pc' = "exit"
    /\ UNCHANGED stderr
    /\ MainFrame

\* the exception is reported on the standard output only and the command
\* ends like a successful one
CliError_exit_zero ==
    /\ pc \in {"extracted", "done"} /\ outcome = "raised"
    /\ stdout' = Append(stdout, Msg("Error", exc))
    /\ exit_code' = 0
    /\ pc' = "exit"
    /\ UNCHANGED stderr
    /\ MainFrame

\* lines 1084-1088: an exception left export_notes or import_notes;
\* "Error: <message>" is printed, traceback.print_exc() writes the traceback
\* with the message to sys.stderr, exit status 2
CliError ==
    /\ pc \in {"extracted", "done"} /\ outcome = "raised"
    /\ stdout' = Append(stdout, Msg("Error", exc))
    /\ stderr' = Append(stderr, Msg("Traceback", exc))
    /\ exit_code' = 2
    /\ pc' = "exit"
    /\ MainFrame

NextCli ==
    \/ CliUsage
    \/ CliCall
    \/ ExtractNoCom
    \/ ExtractNotFound
    \/ ExtractDispatchRaises
    \/ ExtractDispatchOk
    \/ ExtractVisibleRaises
    \/ ExtractOpenOk
    \/ ExtractOpenRaisesRetry
    \/ ExtractOpenRaisesLast
    \/ ExtractRead
    \/ ExtractReadRaises
    \/ ExtractClosePresOk
    \/ ExtractClosePresRaises
    \/ ExtractClosePresSkip
    \/ ExtractQuitOk
    \/ ExtractQuitRaises
    \/ ExtractQuitSkip
    \/ ExportUnknownFormat
    \/ ExportWrite
    \/ ExportWriteRaises
    \/ ImportParse
    \/ ParseUnknownFormat
    \/ ParseMissing
    \/ ParseTxt
    \/ ParseMd
    \/ ParseDocx
    \/ ImportCompare
    \/ Compare
    \/ ImportPreview
    \/ ImportNoChanges
    \/ ImportApply
    \/ ApplyFilter
    \/ DispatchRaises
    \/ DispatchOk
    \/ VisibleRaises
    \/ OpenOk
    \/ OpenRaisesRetry
    \/ OpenRaisesLast
    \/ SetNotesOk
    \/ SetNotesSlideRaises
    \/ SetNotesNoBody
    \/ SetNotesAssignRaises
    \/ SaveOk
    \/ SaveRaises
    \/ ClosePresOk
    \/ ClosePresRaises
    \/ ClosePresSkip
    \/ QuitOk
    \/ QuitRaises
    \/ QuitSkip
    \/ CliExported
    \/ CliImported
    \/ CliPreviewed
    \/ CliError

SpecCli ==
    InitCli /\ [][NextCli]_vars

(***************************************************************************)
(* Properties of the command line, checked under SpecCli.                  *)
(***************************************************************************)

\* C24: on the preview path (import_notes with preview_only set) the only
\* Open is the read-only one of extract_notes, no set-notes pass, no text
\* assignment and no Save is made, the saved document keeps its notes, and
\* what is returned is the change list of compare_notes.
C24_PreviewAppliesNothing ==
    command = "preview" =>
        /\ \A k \in 1..Len(calls) :
               calls[k][1] \notin {"Open", "SetNotes", "AssignText", "Save"}
        /\ disk_notes \in CliDecks
        /\ result = NoResult
        /\ (pc = "done" /\ outcome = "returned") =>
               changes = compare_notes(original, edited)

\* C24 witness: a preview that found a change has ended with status 0; the
\* deck was opened read-only and the saved notes still differ from the edit.
C24_Witness ==
    /\ command = "preview"
    /\ pc = "exit"
    /\ exit_code = 0
    /\ Len(changes) = 1
    /\ changes[1].slide_number = 1
    /\ \E k \in 1..Len(calls) : calls[k][1] = "OpenReadOnly"
    /\ disk_notes[1] # changes[1].edited_notes

\* extract_notes or apply_notes has returned or raised, calls is its log
CallEnded ==
    \/ pc = "extracted"
    \/ pc = "done" /\ command = "import" /\ changes_in # <<>>

\* C27: when extract_notes or apply_notes ends after the application object
\* was created, the last collaborator call is the Quit attempt; if a
\* presentation was opened the call before it is the one Close attempt
\* (whether or not Close raised), and if none was opened no Close is made;
\* the call ends with what its try block ended with.
C27_CleanupOnEveryPath ==
    (CallEnded /\ app # "None") =>
        /\ calls # <<>>
        /\ calls[Len(calls)] = Call("Quit", 0)
        /\ Len(CallsOf("Quit")) = 1
        /\ IF pres # "None"
           THEN /\ Len(calls) >= 2
                /\ calls[Len(calls) - 1] = Call("Close", 0)
                /\ Len(CallsOf("Close")) = 1
           ELSE CallsOf("Close") = <<>>
        /\ outcome = pending
        /\ pending \in {"returned", "raised"}

\* C27 witness: extract_notes has returned its snapshot although both
\* pres.Close() and app.Quit() raised.
C27_Witness ==
    /\ pc = "extracted"
    /\ pres = "open"
    /\ app = "app"
    /\ outcome = "returned"
    /\ records # <<>>
    /\ calls[Len(calls)] = Call("Quit", 0)

\* C28: after an import whose apply_notes returned with every change
\* applied and no error, extracting the saved deck again (every notes page
\* read) and comparing it with the same edited snapshot gives no change.
C28_ImportConverges ==
    ( /\ pc = "done"
      /\ command = "import"
      /\ outcome = "returned"
      /\ changes_in # <<>>
      /\ changes_in = compare_notes(original, edited)
      /\ read_failed = {}
      /\ result.errors = <<>>
      /\ \A k \in 1..Len(changes_in) :
             InSeq(changes_in[k].slide_number, result.applied) )
    => compare_notes(notes_data(disk_notes, {}), edited) = <<>>

\* a line about the exception e is on the stream
Reported(stream, kind) ==
    \E k \in 1..Len(stream) : stream[k] = Msg(kind, exc)

\* C23: a command that ran to its end has exit status 0 exactly when
\* export_notes or import_notes returned; when they raised (deck or edited
\* file missing, unknown extension, Open or Save failed, ...) the status is
\* not 0 and the message is on sys.stderr; an import whose apply_notes
\* returned with errors has status 0 and the errors are printed.
C23_ExitCodes ==
    pc = "exit" =>
        /\ exit_code # -1
        /\ exit_code = 0 <=>
               (command \in Commands /\ argc >= 4 /\ outcome = "returned")
        /\ (command \in Commands /\ argc >= 4 /\ outcome = "raised") =>
               /\ exit_code # 0
               /\ exc # "None"
               /\ Reported(stderr, "Traceback")
        /\ (command = "import" /\ outcome = "returned"
                /\ result.errors # <<>>) =>
               /\ exit_code = 0
               /\ \E k \in 1..Len(stdout) : stdout[k] = Msg("Errors", "None")

\* C23 witness: an import wrote one slide, failed on the other and saved;
\* it ended with status 0 and printed the errors.
C23_Witness ==
    /\ pc = "exit"
    /\ command = "import"
    /\ Len(result.applied) = 1
    /\ Len(result.errors) = 1
    /\ CallsOf("Save") # <<>>
    /\ exit_code = 0
    /\ stdout = <<Msg("Applied", "None"), Msg("Errors", "None")>>
====
